---- MODULE Spec2Model ----
(***************************************************************************)
(* A model of the text-metrics and scoring engine of rhejos:               *)
(*   text_analyzer.py  TextAnalyzer   (counts, readability, comparator)    *)
(*   bias_detector.py  BiasDetector   (lexicon scanners, bias score)       *)
(*   ai_humanizer.py   AIHumanizer    (AI-likelihood scorer)               *)
(*                                                                         *)
(* A text is a sequence of characters, each a one-character string; the    *)
(* symbols of the AI-symbol list are written by their code point           *)
(* ("U2605").  Non-integer numbers are exact rationals <<n, d>> with       *)
(* d > 0 in lowest terms; the code computes them in IEEE doubles, whose    *)
(* rounding error can only matter where a value falls exactly on a         *)
(* threshold.                                                              *)
(***************************************************************************)
EXTENDS Integers, Sequences, FiniteSets, TLC

VARIABLES
    text,       \* the Document handed to the operation (a sequence of characters)
    args,       \* the arguments of a call that takes no text; args.call names it
    result,     \* what the last call returned; result.op names the operation
    instances,  \* the tables of each application object (self.* of its parts)
    callers     \* where each caller of a shared object is in its call

vars == <<text, args, result, instances, callers>>

(***************************************************************************)
(* Bounds of the model.                                                    *)
(***************************************************************************)
MaxLen == 3          \* characters of a text drawn over Alphabet
MaxBiasFrags == 3    \* fragments of a text handed to detect_bias
MaxAIFrags == 3      \* fragments of a text handed to analyze_ai_likelihood
MaxHumanizeFrags == 2 \* fragments of a text handed to humanize_text
MaxGradeHalves == 42 \* grades passed to _get_reading_level, in halves
MaxParagraphs == 16  \* paragraph_count passed to _compare_to_standards
MaxWordFrags == 3    \* fragments of a text handed to _get_most_common_words

(***************************************************************************)
(* Characters.                                                             *)
(***************************************************************************)
LowerLetters ==
    <<"a","b","c","d","e","f","g","h","i","j","k","l","m",
      "n","o","p","q","r","s","t","u","v","w","x","y","z">>

UpperLetters ==
    <<"A","B","C","D","E","F","G","H","I","J","K","L","M",
      "N","O","P","Q","R","S","T","U","V","W","X","Y","Z">>

Digits == {"0","1","2","3","4","5","6","7","8","9"}

Range(s) == {s[i] : i \in DOMAIN s}

LowerSet == Range(LowerLetters)

UpperSet == Range(UpperLetters)

\* str.split(), str.strip() and the regex class \s
Whitespace == {" ", "\n", "\t", "\r"}

\* str.isalnum() of one character
IsAlnum(c) == c \in LowerSet \/ c \in UpperSet \/ c \in Digits

\* the regex class \w
IsWordChar(c) == IsAlnum(c) \/ c = "_"

LowerOfUpper == [c \in UpperSet |-> LowerLetters[CHOOSE i \in 1..26 : UpperLetters[i] = c]]

LowerChar(c) == IF c \in UpperSet THEN LowerOfUpper[c] ELSE c

\* the sequence f with its elements enumerated
AsTuple(f) == f \o <<>>

\* str.lower()
Lower(s) == AsTuple([i \in 1..Len(s) |-> LowerChar(s[i])])

(***************************************************************************)
(* Exact rationals.                                                        *)
(***************************************************************************)
Abs(n) == IF n < 0 THEN -n ELSE n

RECURSIVE GCD(_, _)
GCD(a, b) == IF b = 0 THEN a ELSE GCD(b, a % b)

Rat(n, d) ==
    LET g == GCD(Abs(n), d)
    IN  IF n = 0 THEN <<0, 1>> ELSE <<n \div g, d \div g>>

RInt(n) == <<n, 1>>

RLt(x, y) == x[1] * y[2] < y[1] * x[2]

RLe(x, y) == x[1] * y[2] <= y[1] * x[2]

RSub(x, y) == Rat(x[1] * y[2] - y[1] * x[2], x[2] * y[2])

RMax(x, y) == IF RLt(x, y) THEN y ELSE x

RMin(x, y) == IF RLt(y, x) THEN y ELSE x

Pow10(k) == CASE k = 0 -> 1 [] k = 1 -> 10 [] k = 2 -> 100 [] k = 3 -> 1000

\* round(x, ndigits): to the nearest multiple of 10^-ndigits, a tie to the even one
Round(x, ndigits) ==
    LET n == x[1] * Pow10(ndigits)
        q == n \div x[2]
        r == n % x[2]
        up == 2 * r > x[2] \/ (2 * r = x[2] /\ q % 2 = 1)
    IN  Rat(IF up THEN q + 1 ELSE q, Pow10(ndigits))

(***************************************************************************)
(* Splitting and trimming.                                                 *)
(***************************************************************************)
\* the least element of a non-empty set of integers
Least(S) == CHOOSE x \in S : \A y \in S : x <= y

\* the first position from i on whose character is in chars, Len(s) + 1
\* when there is none
FirstIn(s, i, chars) ==
    CHOOSE j \in i..(Len(s) + 1) :
        /\ j = Len(s) + 1 \/ s[j] \in chars
        /\ \A k \in i..(j - 1) : s[k] \notin chars

\* the first position from i on whose character is not in chars, Len(s) + 1
\* when there is none
FirstNotIn(s, i, chars) ==
    CHOOSE j \in i..(Len(s) + 1) :
        /\ j = Len(s) + 1 \/ s[j] \notin chars
        /\ \A k \in i..(j - 1) : s[k] \in chars

RECURSIVE SplitFrom(_, _)
SplitFrom(s, i) ==
    LET b == FirstNotIn(s, i, Whitespace)
        e == FirstIn(s, b, Whitespace)
    IN  IF b > Len(s) THEN <<>>
        ELSE <<SubSeq(s, b, e - 1)>> \o SplitFrom(s, e)

\* str.split(): the maximal runs of non-whitespace characters
Split(s) == SplitFrom(s, 1)

RECURSIVE ReSplitFrom(_, _, _)
ReSplitFrom(s, seps, i) ==
    LET b == FirstIn(s, i, seps)
    IN  IF b > Len(s) THEN <<SubSeq(s, i, Len(s))>>
        ELSE <<SubSeq(s, i, b - 1)>> \o ReSplitFrom(s, seps, FirstNotIn(s, b, seps))

\* re.split(r'[seps]+', s): the pieces between runs of separators, empty
\* pieces at both ends included
ReSplit(s, seps) == ReSplitFrom(s, seps, 1)

SentenceEnd == {".", "!", "?"}

\* str.strip()
Strip(s) ==
    LET keep == {i \in 1..Len(s) : s[i] \notin Whitespace}
    IN  IF keep = {} THEN <<>>
        ELSE SubSeq(s, CHOOSE i \in keep : \A j \in keep : i <= j,
                       CHOOSE i \in keep : \A j \in keep : j <= i)

(***************************************************************************)
(* TextAnalyzer: the counts.                                               *)
(***************************************************************************)
HasAlnum(w) == \E i \in 1..Len(w) : IsAlnum(w[i])

CountWordsWithoutFilter(t) == Len(Split(t))

CountWords(t) == Len(SelectSeq(Split(t), HasAlnum))

NonBlank(s) == Strip(s) # <<>>

CountSentencesUnfiltered(t) == Len(ReSplit(t, SentenceEnd))

CountSentences(t) == Len(SelectSeq(ReSplit(t, SentenceEnd), NonBlank))

\* the end of the match of \n\s*\n that starts at i, 0 when there is none:
\* \s* is greedy, so the match ends at the last newline of the whitespace
\* run that follows i
ParagraphBreakEnd(s, i) ==
    LET ends == {j \in (i + 1)..Len(s) :
                    /\ s[j] = "\n"
                    /\ \A k \in (i + 1)..j : s[k] \in Whitespace}
    IN  IF s[i] # "\n" \/ ends = {} THEN 0
        ELSE CHOOSE j \in ends : \A k \in ends : k <= j

RECURSIVE ParagraphsFrom(_, _)
ParagraphsFrom(s, i) ==
    LET breaks == {j \in i..Len(s) : ParagraphBreakEnd(s, j) > 0}
    IN  IF breaks = {} THEN <<SubSeq(s, i, Len(s))>>
        ELSE <<SubSeq(s, i, Least(breaks) - 1)>>
             \o ParagraphsFrom(s, ParagraphBreakEnd(s, Least(breaks)) + 1)

\* re.split(r'\n\s*\n', s)
SplitParagraphs(s) == ParagraphsFrom(s, 1)

CountParagraphs(t) == Len(SelectSeq(SplitParagraphs(t), NonBlank))

\* re.sub(r'[^\w\s]', '', w)
StripPunctuation(w) == SelectSeq(w, LAMBDA c : IsWordChar(c) \/ c \in Whitespace)

CountUniqueWords(t) ==
    LET words == Split(Lower(t))
    IN  Cardinality({StripPunctuation(words[i]) : i \in 1..Len(words)})

\* len(text.replace(' ', ''))
CountNoSpaces(t) == Len(SelectSeq(t, LAMBDA c : c # " "))

(***************************************************************************)
(* TextAnalyzer: the syllable estimator.                                   *)
(***************************************************************************)
Vowels == {"a", "e", "i", "o", "u", "y"}

\* the count of the loop from character i on: one for every vowel whose
\* previous character is no vowel
VowelGroups(w, i, previous_was_vowel) ==
    Cardinality({j \in i..Len(w) :
                    /\ w[j] \in Vowels
                    /\ IF j = i THEN ~previous_was_vowel ELSE w[j - 1] \notin Vowels})

EndsWithE(w) == Len(w) > 0 /\ w[Len(w)] = "e"

CountSyllablesNoSilentE(word) ==
    LET w == Lower(word)
        syllable_count == VowelGroups(w, 1, FALSE)
    IN  IF syllable_count = 0 THEN 1 ELSE syllable_count

CountSyllables(word) ==
    LET w == Lower(word)
        groups == VowelGroups(w, 1, FALSE)
        syllable_count == IF EndsWithE(w) THEN groups - 1 ELSE groups
    IN  IF syllable_count = 0 THEN 1 ELSE syllable_count

RECURSIVE SumSyllables(_, _)
SumSyllables(word_list, i) ==
    IF i > Len(word_list) THEN 0
    ELSE CountSyllables(word_list[i]) + SumSyllables(word_list, i + 1)

\* sum(self._count_syllables(word) for word in text.split())
TotalSyllables(t) == SumSyllables(Split(t), 1)

(***************************************************************************)
(* TextAnalyzer: readability.                                              *)
(***************************************************************************)
\* 206.835 - 1.015 * (words / sentences) - 84.6 * (total_syllables / words)
FleschScore(words, sentences, total_syllables) ==
    Rat(206835 * sentences * words - 1015 * words * words
            - 84600 * total_syllables * sentences,
        1000 * sentences * words)

FleschReadingEaseUnclamped(t) ==
    LET words == CountWords(t)
        sentences == CountSentences(t)
    IN  IF words = 0 \/ sentences = 0 THEN RInt(0)
        ELSE FleschScore(words, sentences, TotalSyllables(t))

CalculateFleschReadingEase(t) ==
    LET words == CountWords(t)
        sentences == CountSentences(t)
    IN  IF words = 0 \/ sentences = 0 THEN RInt(0)
        ELSE RMax(RInt(0), RMin(RInt(100), FleschScore(words, sentences, TotalSyllables(t))))

\* 0.39 * (words / sentences) + 11.8 * (total_syllables / words) - 15.59
KincaidGrade(words, sentences, total_syllables) ==
    Rat(39 * words * words + 1180 * total_syllables * sentences
            - 1559 * sentences * words,
        100 * sentences * words)

CalculateFleschKincaidGrade(t) ==
    LET words == CountWords(t)
        sentences == CountSentences(t)
    IN  IF words = 0 \/ sentences = 0 THEN RInt(0)
        ELSE RMax(RInt(0), KincaidGrade(words, sentences, TotalSyllables(t)))

\* self.reading_level_standards, in the order of the dictionary; the last
\* band has no upper end (float('inf'))
ReadingLevelStandards ==
    << [level |-> "elementary",    min_grade |-> 0,  max_grade |-> 5,  bounded |-> TRUE],
       [level |-> "middle_school", min_grade |-> 6,  max_grade |-> 8,  bounded |-> TRUE],
       [level |-> "high_school",   min_grade |-> 9,  max_grade |-> 12, bounded |-> TRUE],
       [level |-> "college",       min_grade |-> 13, max_grade |-> 16, bounded |-> TRUE],
       [level |-> "graduate",      min_grade |-> 17, max_grade |-> 17, bounded |-> FALSE] >>

\* level.replace('_', ' ').title()
LevelTitle ==
    [elementary |-> "Elementary", middle_school |-> "Middle School",
     high_school |-> "High School", college |-> "College", graduate |-> "Graduate"]

\* min_grade <= grade <= max_grade
InBand(grade, band) ==
    /\ RLe(RInt(band.min_grade), grade)
    /\ (~band.bounded \/ RLe(grade, RInt(band.max_grade)))

InBandHalfOpen(grade, band) ==
    /\ RLe(RInt(band.min_grade), grade)
    /\ (~band.bounded \/ RLt(grade, RInt(band.max_grade)))

RECURSIVE ReadingLevelHalfOpenFrom(_, _)
ReadingLevelHalfOpenFrom(grade, i) ==
    IF i > Len(ReadingLevelStandards) THEN "Unknown"
    ELSE IF InBandHalfOpen(grade, ReadingLevelStandards[i])
         THEN LevelTitle[ReadingLevelStandards[i].level]
         ELSE ReadingLevelHalfOpenFrom(grade, i + 1)

RECURSIVE ReadingLevelFrom(_, _)
ReadingLevelFrom(grade, i) ==
    IF i > Len(ReadingLevelStandards) THEN "Unknown"
    ELSE IF InBand(grade, ReadingLevelStandards[i])
         THEN LevelTitle[ReadingLevelStandards[i].level]
         ELSE ReadingLevelFrom(grade, i + 1)

GetReadingLevelHalfOpen(grade) == ReadingLevelHalfOpenFrom(grade, 1)

GetReadingLevel(grade) == ReadingLevelFrom(grade, 1)

(***************************************************************************)
(* TextAnalyzer: the most common words.                                    *)
(***************************************************************************)
\* stop_words
StopWords ==
    {
      <<"t","h","e">>, <<"a">>, <<"a","n">>, <<"a","n","d">>, <<"o","r">>,
      <<"b","u","t">>, <<"i","n">>, <<"o","n">>, <<"a","t">>, <<"t","o">>,
      <<"f","o","r">>, <<"o","f">>, <<"w","i","t","h">>, <<"i","s">>,
      <<"w","a","s">>, <<"a","r","e">>, <<"w","e","r","e">>, <<"b","e">>,
      <<"b","e","e","n">>, <<"b","e","i","n","g">>, <<"h","a","v","e">>,
      <<"h","a","s">>, <<"h","a","d">>, <<"d","o">>, <<"d","o","e","s">>,
      <<"d","i","d">>, <<"w","i","l","l">>, <<"w","o","u","l","d">>,
      <<"c","o","u","l","d">>, <<"s","h","o","u","l","d">>, <<"m","a","y">>,
      <<"m","i","g","h","t">>, <<"m","u","s","t">>, <<"c","a","n">>,
      <<"t","h","i","s">>, <<"t","h","a","t">>, <<"t","h","e","s","e">>,
      <<"t","h","o","s","e">>, <<"i">>, <<"y","o","u">>, <<"h","e">>,
      <<"s","h","e">>, <<"i","t">>, <<"w","e">>, <<"t","h","e","y">>,
      <<"w","h","a","t">>, <<"w","h","i","c","h">>, <<"w","h","o">>,
      <<"w","h","e","n">>, <<"w","h","e","r","e">>, <<"w","h","y">>,
      <<"h","o","w">>, <<"a","l","l">>, <<"e","a","c","h">>, <<"e","v","e","r","y">>,
      <<"b","o","t","h">>, <<"f","e","w">>, <<"m","o","r","e">>, <<"m","o","s","t">>,
      <<"o","t","h","e","r">>, <<"s","o","m","e">>, <<"s","u","c","h">>,
      <<"t","h","a","n">>, <<"t","o","o">>, <<"v","e","r","y">>
    }

\* re.sub(r'[^\w]', '', w)
KeepWordChars(w) == SelectSeq(w, IsWordChar)

\* the filter with words of three letters let through
ContentWordOfThree(w) == w # <<>> /\ Len(w) >= 3 /\ w \notin StopWords

ContentWord(w) == w # <<>> /\ Len(w) > 3 /\ w \notin StopWords

RECURSIVE MapKeepWordChars(_, _)
MapKeepWordChars(words, i) ==
    IF i > Len(words) THEN <<>>
    ELSE <<KeepWordChars(words[i])>> \o MapKeepWordChars(words, i + 1)

Occurrences(words, w) == Cardinality({i \in 1..Len(words) : words[i] = w})

\* the keys of Counter(words), in the order of their first appearance
RECURSIVE FirstSeen(_, _, _)
FirstSeen(words, i, acc) ==
    IF i > Len(words) THEN acc
    ELSE FirstSeen(words, i + 1,
                   IF words[i] \in Range(acc) THEN acc ELSE Append(acc, words[i]))

\* Counter.most_common(n): a stable sort by descending count, cut to n
RECURSIVE MostCommon(_, _, _)
MostCommon(keys, words, n) ==
    IF n <= 0 \/ keys = <<>> THEN <<>>
    ELSE LET best == CHOOSE i \in 1..Len(keys) :
                        /\ \A j \in 1..Len(keys) :
                              Occurrences(words, keys[j]) <= Occurrences(words, keys[i])
                        /\ \A j \in 1..(i - 1) :
                              Occurrences(words, keys[j]) < Occurrences(words, keys[i])
             rest == [j \in 1..(Len(keys) - 1) |-> IF j < best THEN keys[j] ELSE keys[j + 1]]
         IN  <<[word |-> keys[best], count |-> Occurrences(words, keys[best])]>>
             \o MostCommon(rest, words, n - 1)

GetMostCommonWords(t, top_n) ==
    LET words == SelectSeq(MapKeepWordChars(Split(Lower(t)), 1), ContentWord)
    IN  MostCommon(FirstSeen(words, 1, <<>>), words, top_n)

TopN == 10

(***************************************************************************)
(* TextAnalyzer: the standards comparator.                                 *)
(***************************************************************************)
\* self.quality_standards
QualityStandards ==
    [essay |->
        [min_words |-> 300, ideal_words |-> <<500, 1500>>, max_words |-> 3000,
         avg_sentence_length |-> <<15, 20>>, vocabulary_diversity |-> <<1, 2>>,
         paragraph_count |-> <<3, 10>>],
     cover_letter |->
        [min_words |-> 200, ideal_words |-> <<250, 400>>, max_words |-> 500,
         avg_sentence_length |-> <<12, 18>>, vocabulary_diversity |-> <<11, 20>>,
         paragraph_count |-> <<3, 5>>],
     resume |->
        [min_words |-> 200, ideal_words |-> <<300, 600>>, max_words |-> 800,
         avg_sentence_length |-> <<10, 15>>, vocabulary_diversity |-> <<3, 5>>,
         paragraph_count |-> <<4, 8>>],
     letter |->
        [min_words |-> 150, ideal_words |-> <<200, 500>>, max_words |-> 750,
         avg_sentence_length |-> <<12, 20>>, vocabulary_diversity |-> <<1, 2>>,
         paragraph_count |-> <<3, 6>>]]

Genres == DOMAIN QualityStandards

NoEffect == [penalty |-> 0, feedback |-> <<>>, strengths |-> <<>>]

Penalty(n, msg, values) ==
    [penalty |-> n, feedback |-> <<[msg |-> msg, args |-> values]>>, strengths |-> <<>>]

Strength(msg, values) ==
    [penalty |-> 0, feedback |-> <<>>, strengths |-> <<[msg |-> msg, args |-> values]>>]

WordCountRuleNoMinimum(word_count, standards) ==
    IF word_count > standards.max_words
    THEN Penalty(10, "Text is too long", <<word_count, standards.max_words>>)
    ELSE IF standards.ideal_words[1] <= word_count /\ word_count <= standards.ideal_words[2]
    THEN Strength("Excellent word count", <<word_count>>)
    ELSE Penalty(5, "Word count is acceptable but could be optimized", standards.ideal_words)

\* the rule with the bounds of the ideal range left outside it
WordCountRuleExclusiveIdeal(word_count, standards) ==
    IF word_count < standards.min_words
    THEN Penalty(20, "Text is too short", <<word_count, standards.min_words>>)
    ELSE IF word_count > standards.max_words
    THEN Penalty(10, "Text is too long", <<word_count, standards.max_words>>)
    ELSE IF standards.ideal_words[1] < word_count /\ word_count < standards.ideal_words[2]
    THEN Strength("Excellent word count", <<word_count>>)
    ELSE Penalty(5, "Word count is acceptable but could be optimized", standards.ideal_words)

\* the rule with the last branch appending its feedback and taking nothing off
WordCountRuleFreeAdvice(word_count, standards) ==
    IF word_count < standards.min_words
    THEN Penalty(20, "Text is too short", <<word_count, standards.min_words>>)
    ELSE IF word_count > standards.max_words
    THEN Penalty(10, "Text is too long", <<word_count, standards.max_words>>)
    ELSE IF standards.ideal_words[1] <= word_count /\ word_count <= standards.ideal_words[2]
    THEN Strength("Excellent word count", <<word_count>>)
    ELSE Penalty(0, "Word count is acceptable but could be optimized", standards.ideal_words)

\* # Check word count
WordCountRule(word_count, standards) ==
    IF word_count < standards.min_words
    THEN Penalty(20, "Text is too short", <<word_count, standards.min_words>>)
    ELSE IF word_count > standards.max_words
    THEN Penalty(10, "Text is too long", <<word_count, standards.max_words>>)
    ELSE IF standards.ideal_words[1] <= word_count /\ word_count <= standards.ideal_words[2]
    THEN Strength("Excellent word count", <<word_count>>)
    ELSE Penalty(5, "Word count is acceptable but could be optimized", standards.ideal_words)

\* the rule with the outer thresholds counted to the penalties
SentenceLengthRuleInclusive(avg_sentence_length, standards) ==
    LET ideal_min == standards.avg_sentence_length[1]
        ideal_max == standards.avg_sentence_length[2]
    IN  IF RLe(avg_sentence_length, RInt(ideal_min - 5))
        THEN Penalty(10, "Sentences are too short",
                     <<Round(avg_sentence_length, 1), ideal_min, ideal_max>>)
        ELSE IF RLe(RInt(ideal_max + 10), avg_sentence_length)
        THEN Penalty(15, "Sentences are too long",
                     <<Round(avg_sentence_length, 1), ideal_min, ideal_max>>)
        ELSE IF RLe(RInt(ideal_min), avg_sentence_length)
                /\ RLe(avg_sentence_length, RInt(ideal_max))
        THEN Strength("Good sentence length variety", <<>>)
        ELSE NoEffect

\* # Check sentence length
SentenceLengthRule(avg_sentence_length, standards) ==
    LET ideal_min == standards.avg_sentence_length[1]
        ideal_max == standards.avg_sentence_length[2]
    IN  IF RLt(avg_sentence_length, RInt(ideal_min - 5))
        THEN Penalty(10, "Sentences are too short",
                     <<Round(avg_sentence_length, 1), ideal_min, ideal_max>>)
        ELSE IF RLt(RInt(ideal_max + 10), avg_sentence_length)
        THEN Penalty(15, "Sentences are too long",
                     <<Round(avg_sentence_length, 1), ideal_min, ideal_max>>)
        ELSE IF RLe(RInt(ideal_min), avg_sentence_length)
                /\ RLe(avg_sentence_length, RInt(ideal_max))
        THEN Strength("Good sentence length variety", <<>>)
        ELSE NoEffect

\* vocabulary_diversity < standards['vocabulary_diversity'] - 0.1 in doubles:
\* 0.5 - 0.1 and 0.6 - 0.1 are the doubles of 0.4 and 0.5, while 0.55 - 0.1
\* is 0.45000000000000007, the double next above that of 0.45, so that a
\* diversity of exactly 9/20 is below it
BelowDiversityFloor(vocabulary_diversity, target) ==
    \/ RLt(vocabulary_diversity, RSub(target, <<1, 10>>))
    \/ (target = <<11, 20>> /\ vocabulary_diversity = <<9, 20>>)

\* the rule taking 20 points off
VocabularyRuleHeavier(vocabulary_diversity, standards) ==
    IF BelowDiversityFloor(vocabulary_diversity, standards.vocabulary_diversity)
    THEN Penalty(20, "Low vocabulary diversity",
                 <<Round(vocabulary_diversity, 2), standards.vocabulary_diversity>>)
    ELSE IF RLe(standards.vocabulary_diversity, vocabulary_diversity)
    THEN Strength("Excellent vocabulary diversity", <<>>)
    ELSE NoEffect

\* # Check vocabulary diversity
VocabularyRule(vocabulary_diversity, standards) ==
    IF BelowDiversityFloor(vocabulary_diversity, standards.vocabulary_diversity)
    THEN Penalty(15, "Low vocabulary diversity",
                 <<Round(vocabulary_diversity, 2), standards.vocabulary_diversity>>)
    ELSE IF RLe(standards.vocabulary_diversity, vocabulary_diversity)
    THEN Strength("Excellent vocabulary diversity", <<>>)
    ELSE NoEffect

\* # Check paragraph count
ParagraphRule(paragraph_count, standards) ==
    LET ideal_min == standards.paragraph_count[1]
        ideal_max == standards.paragraph_count[2]
    IN  IF paragraph_count < ideal_min
        THEN Penalty(10, "Too few paragraphs", <<paragraph_count, ideal_min, ideal_max>>)
        ELSE IF 2 * paragraph_count > 3 * ideal_max
        THEN Penalty(5, "Consider consolidating some paragraphs",
                     <<paragraph_count, ideal_min, ideal_max>>)
        ELSE IF ideal_min <= paragraph_count /\ paragraph_count <= ideal_max
        THEN Strength("Well-structured paragraphs", <<>>)
        ELSE NoEffect

AssessmentAboveThreshold(score) ==
    IF score > 90 THEN "Excellent - Meets high-quality standards"
    ELSE IF score > 75 THEN "Good - Minor improvements recommended"
    ELSE IF score > 60 THEN "Acceptable - Several areas for improvement"
    ELSE "Needs work - Significant improvements needed"

Assessment(score) ==
    IF score >= 90 THEN "Excellent - Meets high-quality standards"
    ELSE IF score >= 75 THEN "Good - Minor improvements recommended"
    ELSE IF score >= 60 THEN "Acceptable - Several areas for improvement"
    ELSE "Needs work - Significant improvements needed"

\* the rules with the paragraph rule reached only when the vocabulary rule
\* took nothing off
StandardsReportChained(word_count, paragraph_count, avg_sentence_length, vocabulary_diversity, standards) ==
    LET w == WordCountRule(word_count, standards)
        s == SentenceLengthRule(avg_sentence_length, standards)
        v == VocabularyRule(vocabulary_diversity, standards)
        p == IF v.penalty > 0 THEN NoEffect ELSE ParagraphRule(paragraph_count, standards)
        penalties == w.penalty + s.penalty + v.penalty + p.penalty
        score == IF 100 - penalties < 0 THEN 0 ELSE 100 - penalties
    IN  [score |-> score,
         assessment |-> Assessment(score),
         feedback |-> w.feedback \o s.feedback \o v.feedback \o p.feedback,
         strengths |-> w.strengths \o s.strengths \o v.strengths \o p.strengths]

\* the rules of _compare_to_standards, against the standards of one genre
StandardsReport(word_count, paragraph_count, avg_sentence_length, vocabulary_diversity, standards) ==
    LET w == WordCountRule(word_count, standards)
        s == SentenceLengthRule(avg_sentence_length, standards)
        v == VocabularyRule(vocabulary_diversity, standards)
        p == ParagraphRule(paragraph_count, standards)
        penalties == w.penalty + s.penalty + v.penalty + p.penalty
        score == IF 100 - penalties < 0 THEN 0 ELSE 100 - penalties
    IN  [score |-> score,
         assessment |-> Assessment(score),
         feedback |-> w.feedback \o s.feedback \o v.feedback \o p.feedback,
         strengths |-> w.strengths \o s.strengths \o v.strengths \o p.strengths]

\* self.quality_standards[text_type] of a key the table does not hold
KeyError == [error |-> "KeyError"]

CompareToStandardsNoFallback(word_count, sentence_count, paragraph_count, avg_sentence_length, vocabulary_diversity, text_type) ==
    IF text_type \notin Genres THEN KeyError
    ELSE StandardsReport(word_count, paragraph_count, avg_sentence_length,
                         vocabulary_diversity, QualityStandards[text_type])

CompareToStandards(word_count, sentence_count, paragraph_count, avg_sentence_length, vocabulary_diversity, text_type) ==
    LET type == IF text_type \notin Genres THEN "essay" ELSE text_type
    IN  StandardsReport(word_count, paragraph_count, avg_sentence_length,
                        vocabulary_diversity, QualityStandards[type])

(***************************************************************************)
(* TextAnalyzer.analyze_text                                               *)
(***************************************************************************)
\* average reading speed, words per minute
ReadingSpeed == 225

AnalyzeTextResult(t, text_type) ==
    LET word_count == CountWords(t)
        char_count == Len(t)
        char_count_no_spaces == CountNoSpaces(t)
        sentence_count == CountSentences(t)
        paragraph_count == CountParagraphs(t)
        unique_words == CountUniqueWords(t)
        vocabulary_diversity ==
            IF word_count > 0 THEN Rat(unique_words, word_count) ELSE RInt(0)
        avg_word_length ==
            IF word_count > 0 THEN Rat(char_count_no_spaces, word_count) ELSE RInt(0)
        avg_sentence_length ==
            IF sentence_count > 0 THEN Rat(word_count, sentence_count) ELSE RInt(0)
        flesch_reading_ease == CalculateFleschReadingEase(t)
        flesch_kincaid_grade == CalculateFleschKincaidGrade(t)
    IN  [op |-> "analyze_text",
         word_count |-> word_count,
         character_count |-> char_count,
         character_count_no_spaces |-> char_count_no_spaces,
         sentence_count |-> sentence_count,
         paragraph_count |-> paragraph_count,
         unique_words |-> unique_words,
         vocabulary_diversity |-> Round(vocabulary_diversity, 3),
         avg_word_length |-> Round(avg_word_length, 2),
         avg_sentence_length |-> Round(avg_sentence_length, 2),
         flesch_reading_ease |-> Round(flesch_reading_ease, 2),
         flesch_kincaid_grade |-> Round(flesch_kincaid_grade, 2),
         reading_level |-> GetReadingLevel(flesch_kincaid_grade),
         reading_time_minutes |-> Round(Rat(word_count, ReadingSpeed), 1),
         most_common_words |-> GetMostCommonWords(t, TopN),
         quality_score |-> CompareToStandards(word_count, sentence_count,
                               paragraph_count, avg_sentence_length,
                               vocabulary_diversity, text_type),
         text_type |-> text_type]

(***************************************************************************)
(* BiasDetector: the lexicons.                                             *)
(***************************************************************************)
\* self.gender_biased_terms
GenderBiasedTerms ==
    <<
       [category |-> "male", term |-> <<"m","a","n","k","i","n","d">>],
       [category |-> "male", term |-> <<"m","a","n","p","o","w","e","r">>],
       [category |-> "male", term |-> <<"c","h","a","i","r","m","a","n">>],
       [category |-> "male", term |-> <<"p","o","l","i","c","e","m","a","n">>],
       [category |-> "male", term |-> <<"f","i","r","e","m","a","n">>],
       [category |-> "male", term |-> <<"b","u","s","i","n","e","s","s","m","a","n">>],
       [category |-> "male", term |-> <<"s","p","o","k","e","s","m","a","n">>],
       [category |-> "male", term |-> <<"w","o","r","k","m","a","n">>],
       [category |-> "male", term |-> <<"s","a","l","e","s","m","a","n">>],
       [category |-> "male", term |-> <<"m","a","i","l","m","a","n">>],
       [category |-> "male", term |-> <<"h","e","/","h","i","m"," ","(","g","e","n","e","r","i","c",")">>],
       [category |-> "male", term |-> <<"g","u","y","s"," ","(","g","e","n","e","r","i","c",")">>],
       [category |-> "female", term |-> <<"e","m","o","t","i","o","n","a","l">>],
       [category |-> "female", term |-> <<"b","o","s","s","y">>],
       [category |-> "female", term |-> <<"f","e","i","s","t","y">>],
       [category |-> "female", term |-> <<"h","i","g","h","-","m","a","i","n","t","e","n","a","n","c","e">>],
       [category |-> "female", term |-> <<"s","h","r","i","l","l">>],
       [category |-> "female", term |-> <<"h","y","s","t","e","r","i","c","a","l">>],
       [category |-> "female", term |-> <<"h","o","r","m","o","n","a","l">>],
       [category |-> "female", term |-> <<"s","a","s","s","y">>],
       [category |-> "stereotypical", term |-> <<"l","a","d","y"," ","d","o","c","t","o","r">>],
       [category |-> "stereotypical", term |-> <<"m","a","l","e"," ","n","u","r","s","e">>],
       [category |-> "stereotypical", term |-> <<"f","e","m","a","l","e"," ","e","n","g","i","n","e","e","r">>],
       [category |-> "stereotypical", term |-> <<"w","o","r","k","i","n","g"," ","m","o","t","h","e","r">>],
       [category |-> "stereotypical", term |-> <<"c","a","r","e","e","r"," ","w","o","m","a","n">>]
    >>

\* self.racial_bias_terms
RacialBiasTerms ==
    <<
       <<"e","x","o","t","i","c">>,
       <<"a","r","t","i","c","u","l","a","t","e"," ","(","i","n"," ","r","a","c","i","a","l"," ","c","o","n","t","e","x","t",")">>,
       <<"u","r","b","a","n">>, <<"i","n","n","e","r","-","c","i","t","y">>,
       <<"e","t","h","n","i","c","-","s","o","u","n","d","i","n","g"," ","n","a","m","e">>,
       <<"w","e","l","l","-","s","p","o","k","e","n"," ","(","i","n"," ","r","a","c","i","a","l"," ","c","o","n","t","e","x","t",")">>,
       <<"m","i","n","o","r","i","t","y">>,
       <<"d","i","v","e","r","s","e"," ","(","a","s"," ","e","u","p","h","e","m","i","s","m",")">>,
       <<"g","h","e","t","t","o">>, <<"t","h","u","g">>
    >>

\* self.age_bias_terms
AgeBiasTerms ==
    <<
       <<"y","o","u","n","g"," ","b","l","o","o","d">>,
       <<"o","l","d","-","t","i","m","e","r">>,
       <<"o","v","e","r","q","u","a","l","i","f","i","e","d">>,
       <<"d","i","g","i","t","a","l"," ","n","a","t","i","v","e">>,
       <<"s","e","n","i","o","r"," ","m","o","m","e","n","t">>,
       <<"p","a","s","t"," ","t","h","e","i","r"," ","p","r","i","m","e">>,
       <<"f","r","e","s","h"," ","p","e","r","s","p","e","c","t","i","v","e">>,
       <<"t","o","o"," ","e","x","p","e","r","i","e","n","c","e","d">>,
       <<"n","o","t"," ","e","n","o","u","g","h"," ","e","x","p","e","r","i","e","n","c","e">>
    >>

\* self.political_bias_words
PoliticalBiasWords ==
    <<
       [leaning |-> "left-leaning", term |-> <<"f","a","s","c","i","s","t">>],
       [leaning |-> "left-leaning", term |-> <<"n","a","z","i">>],
       [leaning |-> "left-leaning", term |-> <<"r","i","g","h","t","-","w","i","n","g"," ","e","x","t","r","e","m","i","s","t">>],
       [leaning |-> "left-leaning", term |-> <<"c","o","n","s","e","r","v","a","t","i","v","e"," ","b","i","a","s">>],
       [leaning |-> "right-leaning", term |-> <<"c","o","m","m","u","n","i","s","t">>],
       [leaning |-> "right-leaning", term |-> <<"s","o","c","i","a","l","i","s","t">>],
       [leaning |-> "right-leaning", term |-> <<"l","e","f","t","-","w","i","n","g"," ","r","a","d","i","c","a","l">>],
       [leaning |-> "right-leaning", term |-> <<"l","i","b","e","r","a","l"," ","b","i","a","s">>],
       [leaning |-> "polarizing", term |-> <<"f","a","k","e"," ","n","e","w","s">>],
       [leaning |-> "polarizing", term |-> <<"b","r","a","i","n","w","a","s","h","e","d">>],
       [leaning |-> "polarizing", term |-> <<"s","h","e","e","p">>],
       [leaning |-> "polarizing", term |-> <<"w","o","k","e">>],
       [leaning |-> "polarizing", term |-> <<"s","n","o","w","f","l","a","k","e">>]
    >>

\* self.ability_bias_terms
AbilityBiasTerms ==
    <<
       <<"h","a","n","d","i","c","a","p","p","e","d">>, <<"c","r","i","p","p","l","e","d">>,
       <<"s","u","f","f","e","r","s"," ","f","r","o","m">>,
       <<"v","i","c","t","i","m"," ","o","f">>,
       <<"c","o","n","f","i","n","e","d"," ","t","o"," ","w","h","e","e","l","c","h","a","i","r">>,
       <<"s","p","e","c","i","a","l"," ","n","e","e","d","s">>,
       <<"d","i","f","f","e","r","e","n","t","l","y"," ","a","b","l","e","d">>,
       <<"m","e","n","t","a","l","l","y"," ","c","h","a","l","l","e","n","g","e","d">>,
       <<"c","r","a","z","y">>, <<"i","n","s","a","n","e">>, <<"l","a","m","e">>,
       <<"d","u","m","b">>, <<"b","l","i","n","d"," ","t","o">>,
       <<"d","e","a","f"," ","t","o">>
    >>

\* self.socioeconomic_bias_terms
SocioeconomicBiasTerms ==
    <<
       <<"p","o","o","r">>, <<"d","i","s","a","d","v","a","n","t","a","g","e","d">>,
       <<"u","n","d","e","r","p","r","i","v","i","l","e","g","e","d">>,
       <<"l","o","w","-","c","l","a","s","s">>,
       <<"t","r","a","i","l","e","r"," ","t","r","a","s","h">>,
       <<"w","h","i","t","e"," ","t","r","a","s","h">>,
       <<"w","e","l","f","a","r","e"," ","q","u","e","e","n">>,
       <<"b","o","r","n"," ","w","i","t","h"," ","s","i","l","v","e","r"," ","s","p","o","o","n">>
    >>

(***************************************************************************)
(* AIHumanizer: the tables.                                                *)
(***************************************************************************)
\* the keys of self.ai_phrases
AiPhrases ==
    <<
       <<"A","s"," ","a","n"," ","A","I"," ","l","a","n","g","u","a","g","e"," ","m","o","d","e","l">>,
       <<"I"," ","a","p","o","l","o","g","i","z","e",","," ","b","u","t">>,
       <<"I","t","'","s"," ","i","m","p","o","r","t","a","n","t"," ","t","o"," ","n","o","t","e"," ","t","h","a","t">>,
       <<"I","t"," ","i","s"," ","w","o","r","t","h"," ","n","o","t","i","n","g"," ","t","h","a","t">>,
       <<"I","n"," ","c","o","n","c","l","u","s","i","o","n">>,
       <<"F","u","r","t","h","e","r","m","o","r","e">>, <<"M","o","r","e","o","v","e","r">>,
       <<"N","e","v","e","r","t","h","e","l","e","s","s">>,
       <<"T","h","e","r","e","f","o","r","e">>, <<"H","o","w","e","v","e","r">>,
       <<"A","d","d","i","t","i","o","n","a","l","l","y">>,
       <<"S","u","b","s","e","q","u","e","n","t","l","y">>,
       <<"C","o","n","s","e","q","u","e","n","t","l","y">>,
       <<"I","n"," ","o","r","d","e","r"," ","t","o">>,
       <<"D","u","e"," ","t","o"," ","t","h","e"," ","f","a","c","t"," ","t","h","a","t">>,
       <<"I","n"," ","t","h","e"," ","e","v","e","n","t"," ","t","h","a","t">>,
       <<"F","o","r"," ","t","h","e"," ","p","u","r","p","o","s","e"," ","o","f">>,
       <<"W","i","t","h"," ","r","e","g","a","r","d"," ","t","o">>,
       <<"I","n"," ","t","e","r","m","s"," ","o","f">>,
       <<"I","t"," ","s","h","o","u","l","d"," ","b","e"," ","n","o","t","e","d"," ","t","h","a","t">>,
       <<"O","n","e"," ","m","u","s","t"," ","c","o","n","s","i","d","e","r">>,
       <<"I","t"," ","i","s"," ","e","s","s","e","n","t","i","a","l"," ","t","o">>,
       <<"I","t"," ","i","s"," ","c","r","u","c","i","a","l"," ","t","o">>
    >>

\* the keys of self.formal_words
FormalWords ==
    <<
       <<"u","t","i","l","i","z","e">>, <<"e","n","d","e","a","v","o","r">>,
       <<"f","a","c","i","l","i","t","a","t","e">>, <<"i","m","p","l","e","m","e","n","t">>,
       <<"a","s","c","e","r","t","a","i","n">>, <<"c","o","m","m","e","n","c","e">>,
       <<"t","e","r","m","i","n","a","t","e">>, <<"o","b","t","a","i","n">>,
       <<"p","u","r","c","h","a","s","e">>, <<"p","r","o","v","i","d","e">>,
       <<"a","s","s","i","s","t">>, <<"r","e","q","u","i","r","e">>,
       <<"s","u","f","f","i","c","i","e","n","t">>, <<"n","u","m","e","r","o","u","s">>,
       <<"p","r","i","o","r"," ","t","o">>,
       <<"s","u","b","s","e","q","u","e","n","t"," ","t","o">>,
       <<"c","o","n","c","e","r","n","i","n","g">>, <<"r","e","g","a","r","d","i","n","g">>,
       <<"a","f","o","r","e","m","e","n","t","i","o","n","e","d">>,
       <<"h","e","r","e","t","o","f","o","r","e">>,
       <<"i","n"," ","l","i","e","u"," ","o","f">>
    >>

\* self.ai_symbols, each symbol by its code point
AiSymbols ==
    <<
       "U203B", "U2605", "U2606", "U25CF", "U25CB", "U25A0", "U25A1", "U25AA", "U25AB",
       "U2713", "U2714", "U2715", "U2716", "U2717", "U2718", "U27A4", "U2794", "U279C",
       "U27A1", "U21D2", "U27F9", "U3010", "U3011", "U300E", "U300F", "U300C", "U300D"
    >>

(***************************************************************************)
(* The objects of the application: one analyzer, one bias detector and one *)
(* humanizer, each with the tables its constructor builds.                 *)
(***************************************************************************)
FreshInstance ==
    [analyzer |->
         [reading_level_standards |-> ReadingLevelStandards,
          quality_standards |-> QualityStandards],
     bias_detector |->
         [gender_biased_terms |-> GenderBiasedTerms,
          racial_bias_terms |-> RacialBiasTerms,
          age_bias_terms |-> AgeBiasTerms,
          political_bias_words |-> PoliticalBiasWords,
          ability_bias_terms |-> AbilityBiasTerms,
          socioeconomic_bias_terms |-> SocioeconomicBiasTerms],
     ai_humanizer |->
         [ai_phrases |-> AiPhrases,
          formal_words |-> FormalWords,
          ai_symbols |-> AiSymbols]]

InstanceIds == {1, 2}

FreshInstances == [i \in InstanceIds |-> FreshInstance]

Callers == {1, 2}

Idle == [pc |-> "idle"]

NoCallers == [c \in Callers |-> Idle]

(***************************************************************************)
(* The calls on the analyzer, on a text drawn over a small alphabet.       *)
(***************************************************************************)
Alphabet == {"a", "e", "b", "E", " ", ".", ",", "\n"}

ShortTexts == UNION {[1..n -> Alphabet] : n \in 0..MaxLen}

\* the words of the syllable examples, and one of five letters
SampleTexts ==
    { <<"t","h","e">>, <<"b","a","n","a","n","a">>, <<"r","a","t","e">>,
      <<"h","e","l","l","o">>, <<"R","A","T","E">> }

Texts == ShortTexts \cup SampleTexts

\* a genre key the benchmark table does not hold
UnknownGenre == "memo"

TextTypes == Genres \cup {UnknownGenre}

NoResult == [op |-> "none"]

NoArgs == [call |-> "none"]

InitText ==
    /\ text \in Texts /\ args = NoArgs /\ result = NoResult
    /\ instances = FreshInstances /\ callers = NoCallers

AnalyzeText ==
    /\ \E text_type \in TextTypes : result' = AnalyzeTextResult(text, text_type)
    /\ UNCHANGED <<text, args, instances, callers>>

CountSyllablesCall ==
    /\ result' = [op |-> "count_syllables", word |-> text,
                  syllable_count |-> CountSyllables(text)]
    /\ UNCHANGED <<text, args, instances, callers>>

CountWordsCall ==
    /\ result' = [op |-> "count_words", word_count |-> CountWords(text)]
    /\ UNCHANGED <<text, args, instances, callers>>

NextText == AnalyzeText \/ CountSyllablesCall \/ CountWordsCall

SpecText == InitText /\ [][NextText]_vars

(***************************************************************************)
(* Direct calls of _get_reading_level and _compare_to_standards, on        *)
(* inputs drawn around the thresholds of the tables.                       *)
(***************************************************************************)
\* grades from -2 upwards, in halves
GradeInputs == {Rat(n, 2) : n \in (-4)..MaxGradeHalves}

WordCountInputs(standards) ==
    {0, 100,
     standards.min_words - 1, standards.min_words,
     standards.ideal_words[1] - 1, standards.ideal_words[1],
     standards.ideal_words[2], standards.ideal_words[2] + 1,
     standards.max_words, standards.max_words + 1}

SentenceLengthInputs(standards) ==
    LET lo == standards.avg_sentence_length[1]
        hi == standards.avg_sentence_length[2]
    IN  {RInt(0), Rat(2 * lo - 11, 2), RInt(lo - 5), Rat(2 * lo - 1, 2), RInt(lo),
         RInt(hi), Rat(2 * hi + 1, 2), RInt(hi + 10), Rat(2 * hi + 21, 2)}

DiversityInputs(standards) ==
    LET target == standards.vocabulary_diversity
    IN  {RInt(0), RSub(target, <<3, 20>>), RSub(target, <<1, 10>>),
         RSub(target, <<1, 20>>), target, <<9, 20>>, RInt(1), RInt(2)}

ParagraphInputs == 0..MaxParagraphs

GenreOf(text_type) == IF text_type \notin Genres THEN "essay" ELSE text_type

GradeArgs == {[call |-> "get_reading_level", grade |-> g] : g \in GradeInputs}

CompareArgsOf(text_type) ==
    LET standards == QualityStandards[GenreOf(text_type)]
    IN  {[call |-> "compare_to_standards",
          word_count |-> wc, sentence_count |-> 1, paragraph_count |-> pc,
          avg_sentence_length |-> asl, vocabulary_diversity |-> vd,
          text_type |-> text_type] :
            wc \in WordCountInputs(standards),
            pc \in ParagraphInputs,
            asl \in SentenceLengthInputs(standards),
            vd \in DiversityInputs(standards)}

InitDirect ==
    /\ text = <<>>
    /\ result = NoResult
    /\ instances = FreshInstances /\ callers = NoCallers
    /\ \/ args \in GradeArgs
       \/ \E text_type \in TextTypes : args \in CompareArgsOf(text_type)

GetReadingLevelCall ==
    /\ args.call = "get_reading_level"
    /\ result' = [op |-> "get_reading_level",
                  reading_level |-> GetReadingLevel(args.grade)]
    /\ UNCHANGED <<text, args, instances, callers>>

CompareToStandardsCall ==
    /\ args.call = "compare_to_standards"
    /\ result' = [op |-> "compare_to_standards",
                  report |-> CompareToStandards(args.word_count, args.sentence_count,
                                 args.paragraph_count, args.avg_sentence_length,
                                 args.vocabulary_diversity, args.text_type)]
    /\ UNCHANGED <<text, args, instances, callers>>

NextDirect == GetReadingLevelCall \/ CompareToStandardsCall

SpecDirect == InitDirect /\ [][NextDirect]_vars

(***************************************************************************)
(* BiasDetector: the scanners.                                             *)
(***************************************************************************)
\* needle in hay (no needle of the lexicons is empty)
Contains(hay, needle) ==
    \E i \in 1..(Len(hay) - Len(needle) + 1) :
        /\ hay[i] = needle[1]
        /\ \A j \in 2..Len(needle) : hay[i + j - 1] = needle[j]

\* term.split('(')[0]
BeforeParen(term) ==
    LET opens == {i \in 1..Len(term) : term[i] = "("}
    IN  IF opens = {} THEN term
        ELSE SubSeq(term, 1, (CHOOSE i \in opens : \A j \in opens : i <= j) - 1)

\* term.split('(')[0].strip().lower()
TermKey(term) == Lower(Strip(BeforeParen(term)))

\* a match of \bword\b that starts at position i of s
WholeWordAt(s, i, word) ==
    /\ i + Len(word) - 1 <= Len(s)
    /\ \A j \in 1..Len(word) : s[i + j - 1] = word[j]
    /\ (i = 1 \/ ~IsWordChar(s[i - 1]))
    /\ (i + Len(word) > Len(s) \/ ~IsWordChar(s[i + Len(word)]))

\* the first alternative of words that matches at position i of s
FirstAlternative(s, i, words) ==
    Least({k \in 1..Len(words) : WholeWordAt(s, i, words[k])})

RECURSIVE CountMatchesFrom(_, _, _, _)
CountMatchesFrom(s, i, words, hits) ==
    LET later == {p \in hits : p >= i}
    IN  IF later = {} THEN 0
        ELSE 1 + CountMatchesFrom(
                     s, Least(later) + Len(words[FirstAlternative(s, Least(later), words)]),
                     words, hits)

\* the count with every occurrence of a word inside a longer word included
CountSubstrings(s, words) ==
    Cardinality({p \in 1..Len(s) :
                    \E k \in 1..Len(words) :
                        /\ p + Len(words[k]) - 1 <= Len(s)
                        /\ \A j \in 1..Len(words[k]) : s[p + j - 1] = words[k][j]})

\* len(re.findall(r'\bw1\b|\bw2\b|...', s)): the scan takes the leftmost
\* match, the first alternative that matches there, and goes on behind it
CountWholeWords(s, words) ==
    CountMatchesFrom(s, 1, words,
        {p \in 1..Len(s) : \E k \in 1..Len(words) : WholeWordAt(s, p, words[k])})

MasculinePronouns == << <<"h","e">>, <<"h","i","m">>, <<"h","i","s">> >>

FemininePronouns == << <<"s","h","e">>, <<"h","e","r">>, <<"h","e","r","s">> >>

PronounImbalance == <<"P","r","o","n","o","u","n"," ","i","m","b","a","l","a","n","c","e">>

Scored(issues) == [score |-> Len(issues), issues |-> issues]

\* the search keys of the lexicons, computed once
GenderKeys ==
    AsTuple([i \in 1..Len(GenderBiasedTerms) |-> TermKey(GenderBiasedTerms[i].term)])

StrippedKeys(terms) == AsTuple([i \in 1..Len(terms) |-> TermKey(terms[i])])

LoweredKeys(terms) == AsTuple([i \in 1..Len(terms) |-> Lower(terms[i])])

RacialKeys == StrippedKeys(RacialBiasTerms)

RacialKeysUnstripped == LoweredKeys(RacialBiasTerms)

AgeKeys == LoweredKeys(AgeBiasTerms)

PoliticalKeys ==
    AsTuple([i \in 1..Len(PoliticalBiasWords) |-> Lower(PoliticalBiasWords[i].term)])

AbilityKeys == LoweredKeys(AbilityBiasTerms)

SocioeconomicKeys == LoweredKeys(SocioeconomicBiasTerms)

RECURSIVE GenderIssues(_, _)
GenderIssues(text_lower, i) ==
    IF i > Len(GenderBiasedTerms) THEN <<>>
    ELSE (IF Contains(text_lower, GenderKeys[i])
          THEN <<[term |-> GenderBiasedTerms[i].term,
                  category |-> GenderBiasedTerms[i].category,
                  severity |-> "medium"]>>
          ELSE <<>>) \o GenderIssues(text_lower, i + 1)

CheckGenderBias(t, text_lower) ==
    LET he_count == CountWholeWords(text_lower, MasculinePronouns)
        she_count == CountWholeWords(text_lower, FemininePronouns)
    IN  Scored(GenderIssues(text_lower, 1) \o
               (IF he_count > she_count * 2 \/ she_count > he_count * 2
                THEN <<[term |-> PronounImbalance, category |-> "pronoun_bias",
                        severity |-> "low", details |-> <<he_count, she_count>>]>>
                ELSE <<>>))

\* one scanner loop: an Issue for every term whose key is in the text
RECURSIVE TermIssues(_, _, _, _, _)
TermIssues(text_lower, terms, keys, severity, i) ==
    IF i > Len(terms) THEN <<>>
    ELSE (IF Contains(text_lower, keys[i])
          THEN <<[term |-> terms[i], severity |-> severity]>>
          ELSE <<>>) \o TermIssues(text_lower, terms, keys, severity, i + 1)

CheckRacialBiasUnstripped(text_lower) ==
    Scored(TermIssues(text_lower, RacialBiasTerms, RacialKeysUnstripped, "high", 1))

\* term_lower = term.split('(')[0].strip().lower()
CheckRacialBias(text_lower) ==
    Scored(TermIssues(text_lower, RacialBiasTerms, RacialKeys, "high", 1))

\* term.lower() in text_lower
CheckAgeBias(text_lower) ==
    Scored(TermIssues(text_lower, AgeBiasTerms, AgeKeys, "medium", 1))

RECURSIVE PoliticalIssues(_, _)
PoliticalIssues(text_lower, i) ==
    IF i > Len(PoliticalBiasWords) THEN <<>>
    ELSE (IF Contains(text_lower, PoliticalKeys[i])
          THEN <<[term |-> PoliticalBiasWords[i].term,
                  leaning |-> PoliticalBiasWords[i].leaning,
                  severity |-> "high"]>>
          ELSE <<>>) \o PoliticalIssues(text_lower, i + 1)

CheckPoliticalBias(text_lower) == Scored(PoliticalIssues(text_lower, 1))

CheckAbilityBias(text_lower) ==
    Scored(TermIssues(text_lower, AbilityBiasTerms, AbilityKeys, "medium", 1))

CheckSocioeconomicBias(text_lower) ==
    Scored(TermIssues(text_lower, SocioeconomicBiasTerms, SocioeconomicKeys, "high", 1))

RECURSIVE SumLen(_, _)
SumLen(words, i) == IF i > Len(words) THEN 0 ELSE Len(words[i]) + SumLen(words, i + 1)

LongWord(w) == Len(w) > 10

CheckLanguageComplexity(t) ==
    LET words == Split(t)
        avg_word_length ==
            IF words # <<>> THEN Rat(SumLen(words, 1), Len(words)) ELSE RInt(0)
        sentences == ReSplit(t, SentenceEnd)
        avg_sentence_length ==
            IF sentences # <<>> THEN Rat(Len(words), Len(sentences)) ELSE RInt(0)
    IN  [avg_word_length |-> Round(avg_word_length, 2),
         avg_sentence_length |-> Round(avg_sentence_length, 2),
         long_words_count |-> Len(SelectSeq(words, LongWord)),
         readability |-> IF RLt(RInt(6), avg_word_length)
                            \/ RLt(RInt(25), avg_sentence_length)
                         THEN "complex" ELSE "accessible"]

GenerateRecommendations(results) ==
    LET advice ==
            (IF results.gender_bias.score > 0
             THEN <<"Use gender-neutral language (e.g., 'chairperson' instead of 'chairman', 'humanity' instead of 'mankind')",
                    "Consider using 'they/them' as singular pronouns or alternate between gender pronouns">>
             ELSE <<>>) \o
            (IF results.racial_bias.score > 0
             THEN <<"Replace coded language with specific, neutral descriptions",
                    "Avoid terms that may carry racial stereotypes or implications">>
             ELSE <<>>) \o
            (IF results.age_bias.score > 0
             THEN <<"Focus on skills and qualifications rather than age-related characteristics",
                    "Avoid age-related stereotypes or assumptions">>
             ELSE <<>>) \o
            (IF results.political_bias.score > 0
             THEN <<"Use neutral, fact-based language instead of politically charged terms",
                    "Present multiple perspectives when discussing contentious topics">>
             ELSE <<>>) \o
            (IF results.ability_bias.score > 0
             THEN <<"Use person-first language (e.g., 'person with a disability' rather than 'disabled person')",
                    "Avoid metaphorical use of disability terms">>
             ELSE <<>>) \o
            (IF results.socioeconomic_bias.score > 0
             THEN <<"Use respectful, non-judgmental language when discussing economic status",
                    "Avoid stereotypes about socioeconomic groups">>
             ELSE <<>>) \o
            (IF results.language_complexity.readability = "complex"
             THEN <<"Simplify language for better accessibility and inclusivity",
                    "Break long sentences into shorter, clearer statements">>
             ELSE <<>>)
    IN  IF advice = <<>>
        THEN <<"Great job! No significant bias detected. Continue using inclusive language.">>
        ELSE advice

OverallBiasScoreUncapped(bias_count, text_length) ==
    IF text_length > 0 THEN Rat(bias_count * 1000, text_length) ELSE RInt(0)

\* min(100, (bias_count / text_length) * 1000), and 0 for no token at all
OverallBiasScore(bias_count, text_length) ==
    IF text_length > 0
    THEN RMin(RInt(100), Rat(bias_count * 1000, text_length))
    ELSE RInt(0)

DetectBiasResult(t) ==
    LET text_lower == Lower(t)
        scans == [gender_bias |-> CheckGenderBias(t, text_lower),
                  racial_bias |-> CheckRacialBias(text_lower),
                  age_bias |-> CheckAgeBias(text_lower),
                  political_bias |-> CheckPoliticalBias(text_lower),
                  ability_bias |-> CheckAbilityBias(text_lower),
                  socioeconomic_bias |-> CheckSocioeconomicBias(text_lower),
                  language_complexity |-> CheckLanguageComplexity(t)]
        bias_count == Len(scans.gender_bias.issues) + Len(scans.racial_bias.issues)
                      + Len(scans.age_bias.issues) + Len(scans.political_bias.issues)
                      + Len(scans.ability_bias.issues)
                      + Len(scans.socioeconomic_bias.issues)
        text_length == Len(Split(t))
        overall_bias_score == OverallBiasScore(bias_count, text_length)
    IN  [op |-> "detect_bias",
         overall_bias_score |-> overall_bias_score,
         gender_bias |-> scans.gender_bias,
         racial_bias |-> scans.racial_bias,
         age_bias |-> scans.age_bias,
         political_bias |-> scans.political_bias,
         ability_bias |-> scans.ability_bias,
         socioeconomic_bias |-> scans.socioeconomic_bias,
         language_complexity |-> scans.language_complexity,
         inclusivity_score |-> RMax(RInt(0), RSub(RInt(100), overall_bias_score)),
         recommendations |-> GenerateRecommendations(scans)]

(***************************************************************************)
(* The calls of detect_bias, on a text put together from fragments.        *)
(***************************************************************************)
RECURSIVE FragmentTexts(_, _)
FragmentTexts(fragments, n) ==
    IF n = 0 THEN {<<>>}
    ELSE LET shorter == FragmentTexts(fragments, n - 1)
         IN  shorter \cup {t \o f : t \in shorter, f \in fragments}

\* "The chairman "
ChairmanClause ==
    <<"T","h","e"," ","c","h","a","i","r","m","a","n"," ">>

\* "discussed mankind's progress. "
MankindClause ==
    <<"d","i","s","c","u","s","s","e","d"," ","m","a","n","k","i","n","d","'","s"," ","p","r","o","g","r","e","s","s","."," ">>

\* "He "
MasculinePronoun ==
    <<"H","e"," ">>

\* "her "
FemininePronoun ==
    <<"h","e","r"," ">>

\* "- the board met again on monday to review plans for next year "
NeutralClause ==
    <<"-"," ","t","h","e"," ","b","o","a","r","d"," ","m","e","t"," ","a","g","a","i","n"," ","o","n"," ","m","o","n","d","a","y"," ","t","o"," ","r","e","v","i","e","w"," ","p","l","a","n","s"," ","f","o","r"," ","n","e","x","t"," ","y","e","a","r"," ">>

\* "A suburban, articulate, overqualified but crazy and poor thug spreads fake news. "
LoadedSentence ==
    <<"A"," ","s","u","b","u","r","b","a","n",","," ","a","r","t","i","c","u","l","a","t","e",","," ","o","v","e","r","q","u","a","l","i","f","i","e","d"," ","b","u","t"," ","c","r","a","z","y"," ","a","n","d"," ","p","o","o","r"," ","t","h","u","g"," ","s","p","r","e","a","d","s"," ","f","a","k","e"," ","n","e","w","s","."," ">>

\* "There she told him that his plan was hers. "
PronounSentence ==
    <<"T","h","e","r","e"," ","s","h","e"," ","t","o","l","d"," ","h","i","m"," ","t","h","a","t"," ","h","i","s"," ","p","l","a","n"," ","w","a","s"," ","h","e","r","s","."," ">>

BiasFragments ==
    {ChairmanClause, MankindClause, MasculinePronoun, FemininePronoun, PronounSentence,
     NeutralClause, LoadedSentence}

BiasTexts == FragmentTexts(BiasFragments, MaxBiasFrags)

InitBias ==
    /\ text \in BiasTexts /\ args = NoArgs /\ result = NoResult
    /\ instances = FreshInstances /\ callers = NoCallers

DetectBias ==
    /\ result' = DetectBiasResult(text)
    /\ UNCHANGED <<text, args, instances, callers>>

NextBias == DetectBias

SpecBias == InitBias /\ [][NextBias]_vars

(***************************************************************************)
(* AIHumanizer: the AI-likelihood scorer.                                  *)
(***************************************************************************)
PhraseInTextCaseSensitive(phrase, t) == Contains(t, phrase)

\* phrase.lower() in text.lower()
PhraseInText(phrase, t) == Contains(Lower(t), Lower(phrase))

RECURSIVE PhraseIndicators(_, _)
PhraseIndicators(t, i) ==
    IF i > Len(AiPhrases) THEN <<>>
    ELSE (IF PhraseInText(AiPhrases[i], t)
          THEN << <<"Contains AI phrase", AiPhrases[i]>> >>
          ELSE <<>>) \o PhraseIndicators(t, i + 1)

\* sum(1 for symbol in self.ai_symbols if symbol in text)
AiSymbolCount(t) == Cardinality({k \in 1..Len(AiSymbols) : AiSymbols[k] \in Range(t)})

\* sum(1 for word in self.formal_words.keys() if word in text.lower())
FormalWordCount(t) ==
    LET text_lower == Lower(t)
    IN  Cardinality({k \in 1..Len(FormalWords) : Contains(text_lower, FormalWords[k])})

HasApostrophe(w) == \E i \in 1..Len(w) : w[i] = "'"

RECURSIVE SumWords(_, _)
SumWords(sentences, i) ==
    IF i > Len(sentences) THEN 0
    ELSE Len(Split(sentences[i])) + SumWords(sentences, i + 1)

\* [s.split()[0] for s in sentences if s.split()]
SentenceStarts(sentences) ==
    LET spoken == SelectSeq(sentences, LAMBDA x : Split(x) # <<>>)
    IN  [i \in 1..Len(spoken) |-> Split(spoken[i])[1]]

\* the bands with each threshold counted to the band below it
GetAIAssessmentInclusive(probability) ==
    IF probability <= 20 THEN "Appears very human-like"
    ELSE IF probability <= 40 THEN "Appears mostly human-written"
    ELSE IF probability <= 60 THEN "May be AI-generated or heavily edited"
    ELSE IF probability <= 80 THEN "Likely AI-generated"
    ELSE "Very likely AI-generated"

GetAIAssessment(probability) ==
    IF probability < 20 THEN "Appears very human-like"
    ELSE IF probability < 40 THEN "Appears mostly human-written"
    ELSE IF probability < 60 THEN "May be AI-generated or heavily edited"
    ELSE IF probability < 80 THEN "Likely AI-generated"
    ELSE "Very likely AI-generated"

\* the recommendations with each threshold counted to the band below it
GetHumanizationRecommendationsAbove(probability) ==
    IF probability < 20 THEN <<"Text already appears natural!">>
    ELSE (IF probability > 40
          THEN <<"Add contractions to sound more conversational",
                 "Replace formal words with simpler alternatives",
                 "Vary sentence structure and length">>
          ELSE <<>>) \o
         (IF probability > 60
          THEN <<"Remove AI-typical phrases and symbols",
                 "Break up long, complex sentences",
                 "Add more personal voice and natural expressions">>
          ELSE <<>>)

GetHumanizationRecommendations(probability) ==
    IF probability < 20 THEN <<"Text already appears natural!">>
    ELSE (IF probability >= 40
          THEN <<"Add contractions to sound more conversational",
                 "Replace formal words with simpler alternatives",
                 "Vary sentence structure and length">>
          ELSE <<>>) \o
         (IF probability >= 60
          THEN <<"Remove AI-typical phrases and symbols",
                 "Break up long, complex sentences",
                 "Add more personal voice and natural expressions">>
          ELSE <<>>)

\* the formality signal scored per entry over the threshold
FormalitySignalPerExcessHit(formal_word_count) ==
    IF formal_word_count > 3 THEN (formal_word_count - 3) * 5 ELSE 0

\* if formal_word_count > 3: score += formal_word_count * 5
FormalitySignal(formal_word_count) ==
    IF formal_word_count > 3 THEN formal_word_count * 5 ELSE 0

StartsWith(seq, x) == Cardinality({i \in 1..Len(seq) : seq[i] = x})

\* the repetition test asking for one word at the start of more than 3
\* sentences
RepetitiveStartsOfOneWord(sentence_starts) ==
    \E x \in Range(sentence_starts) : StartsWith(sentence_starts, x) > 3

\* len(sentence_starts) != len(set(sentence_starts)) and len(sentence_starts) > 3
RepetitiveStarts(sentence_starts) ==
    /\ Len(sentence_starts) # Cardinality(Range(sentence_starts))
    /\ Len(sentence_starts) > 3

\* the non-empty stripped sentences of the text
AISentences(t) == SelectSeq(ReSplit(t, SentenceEnd), NonBlank)

\* the increments of the local score, one field per signal
Signals(t) ==
    LET words == Split(t)
        sentences == AISentences(t)
        ai_symbol_count == AiSymbolCount(t)
    IN  [phrases |-> Len(PhraseIndicators(t, 1)) * 15,
         symbols |-> IF ai_symbol_count > 0 THEN ai_symbol_count * 10 ELSE 0,
         formality |-> FormalitySignal(FormalWordCount(t)),
         contractions |->
             IF Len(words) > 50 /\ Len(SelectSeq(words, HasApostrophe)) = 0
             THEN 20 ELSE 0,
         length |->
             IF sentences # <<>> /\ SumWords(sentences, 1) > 25 * Len(sentences)
             THEN 15 ELSE 0,
         repetition |->
             IF RepetitiveStarts(SentenceStarts(sentences)) THEN 10 ELSE 0]

AnalyzeAILikelihoodResult(t) ==
    LET phrases == PhraseIndicators(t, 1)
        ai_symbol_count == AiSymbolCount(t)
        formal_word_count == FormalWordCount(t)
        words == Split(t)
        word_count == Len(words)
        contraction_count == Len(SelectSeq(words, HasApostrophe))
        sentences == AISentences(t)
        long_sentences ==
            sentences # <<>> /\ SumWords(sentences, 1) > 25 * Len(sentences)
        repetitive == RepetitiveStarts(SentenceStarts(sentences))
        signals == Signals(t)
        score == signals.phrases + signals.symbols + signals.formality
                 + signals.contractions + signals.length + signals.repetition
        ai_probability == IF score < 100 THEN score ELSE 100
    IN  [op |-> "analyze_ai_likelihood",
         ai_probability |-> ai_probability,
         assessment |-> GetAIAssessment(ai_probability),
         indicators |->
             phrases \o
             (IF ai_symbol_count > 0
              THEN << <<"Contains AI-typical symbols", ai_symbol_count>> >> ELSE <<>>) \o
             (IF formal_word_count > 3
              THEN << <<"High formality", formal_word_count>> >> ELSE <<>>) \o
             (IF word_count > 50 /\ contraction_count = 0
              THEN << <<"No contractions used (overly formal)">> >> ELSE <<>>) \o
             (IF long_sentences
              THEN << <<"Very long average sentence length",
                        Round(Rat(SumWords(sentences, 1), Len(sentences)), 1)>> >>
              ELSE <<>>) \o
             (IF repetitive THEN << <<"Repetitive sentence structures">> >> ELSE <<>>),
         recommendations |-> GetHumanizationRecommendations(ai_probability)]

(***************************************************************************)
(* The calls of analyze_ai_likelihood, on a text put together from         *)
(* fragments.                                                              *)
(***************************************************************************)
\* "As an AI language model, I cannot say. "
DisclaimerSentence ==
    <<"A","s"," ","a","n"," ","A","I"," ","l","a","n","g","u","a","g","e"," ","m","o","d","e","l",","," ","I"," ","c","a","n","n","o","t"," ","s","a","y","."," ">>

\* "AS AN AI LANGUAGE MODEL "
DisclaimerUpperCase ==
    <<"A","S"," ","A","N"," ","A","I"," ","L","A","N","G","U","A","G","E"," ","M","O","D","E","L"," ">>

\* "U+2605 U+2713 "
StarAndCheck ==
    <<"U2605"," ","U2713"," ">>

\* "U+27A4 "
Arrow ==
    <<"U27A4"," ">>

\* "Furthermore, we utilize, facilitate, obtain and provide numerous items. "
FormalSentence ==
    <<"F","u","r","t","h","e","r","m","o","r","e",","," ","w","e"," ","u","t","i","l","i","z","e",","," ","f","a","c","i","l","i","t","a","t","e",","," ","o","b","t","a","i","n"," ","a","n","d"," ","p","r","o","v","i","d","e"," ","n","u","m","e","r","o","u","s"," ","i","t","e","m","s","."," ">>

\* "It's fine. It was good. It was late. It was fun. "
ShortSentences ==
    <<"I","t","'","s"," ","f","i","n","e","."," ","I","t"," ","w","a","s"," ","g","o","o","d","."," ","I","t"," ","w","a","s"," ","l","a","t","e","."," ","I","t"," ","w","a","s"," ","f","u","n","."," ">>

\* "we went to the park and then we sat on the old bench and we ate the bread and the jam and so on and on "
LongClause ==
    <<"w","e"," ","w","e","n","t"," ","t","o"," ","t","h","e"," ","p","a","r","k"," ","a","n","d"," ","t","h","e","n"," ","w","e"," ","s","a","t"," ","o","n"," ","t","h","e"," ","o","l","d"," ","b","e","n","c","h"," ","a","n","d"," ","w","e"," ","a","t","e"," ","t","h","e"," ","b","r","e","a","d"," ","a","n","d"," ","t","h","e"," ","j","a","m"," ","a","n","d"," ","s","o"," ","o","n"," ","a","n","d"," ","o","n"," ">>

\* "Moreover, it is crucial to agree; nevertheless, in conclusion we do. "
PhraseSentence ==
    <<"M","o","r","e","o","v","e","r",","," ","i","t"," ","i","s"," ","c","r","u","c","i","a","l"," ","t","o"," ","a","g","r","e","e",";"," ","n","e","v","e","r","t","h","e","l","e","s","s",","," ","i","n"," ","c","o","n","c","l","u","s","i","o","n"," ","w","e"," ","d","o","."," ">>

AIFragments ==
    {DisclaimerSentence,
     PhraseSentence,
     DisclaimerUpperCase,
     StarAndCheck,
     Arrow,
     FormalSentence,
     ShortSentences,
     LongClause}

AITexts == FragmentTexts(AIFragments, MaxAIFrags)

InitAI ==
    /\ text \in AITexts /\ args = NoArgs /\ result = NoResult
    /\ instances = FreshInstances /\ callers = NoCallers

AnalyzeAILikelihood ==
    /\ result' = AnalyzeAILikelihoodResult(text)
    /\ UNCHANGED <<text, args, instances, callers>>

NextAI == AnalyzeAILikelihood

SpecAI == InitAI /\ [][NextAI]_vars

(***************************************************************************)
(* AIHumanizer: the rewriting pipeline of humanize_text.                   *)
(***************************************************************************)
\* the values of self.ai_phrases, in the order of its keys; a fixed
\* replacement stands as its only alternative
AiPhraseAlternatives ==
    <<
       << <<>> >>,
       << <<>> >>,
       << <<>> >>,
       << <<>> >>,
       << <<"T","o"," ","w","r","a","p"," ","u","p">> >>,
       << <<"A","l","s","o">>, <<"P","l","u","s">>, <<"A","d","d","i","t","i","o","n","a","l","l","y">>, <<"O","n"," ","t","o","p"," ","o","f"," ","t","h","a","t">> >>,
       << <<"A","l","s","o">>, <<"B","e","s","i","d","e","s">>, <<"W","h","a","t","'","s"," ","m","o","r","e">> >>,
       << <<"S","t","i","l","l">>, <<"E","v","e","n"," ","s","o">>, <<"T","h","a","t"," ","s","a","i","d">> >>,
       << <<"S","o">>, <<"T","h","u","s">>, <<"T","h","a","t","'","s"," ","w","h","y">> >>,
       << <<"B","u","t">>, <<"Y","e","t">>, <<"T","h","o","u","g","h">>, <<"S","t","i","l","l">> >>,
       << <<"A","l","s","o">>, <<"P","l","u","s">>, <<"A","n","d">> >>,
       << <<"T","h","e","n">>, <<"A","f","t","e","r"," ","t","h","a","t">>, <<"L","a","t","e","r">> >>,
       << <<"A","s"," ","a"," ","r","e","s","u","l","t">>, <<"S","o">>, <<"B","e","c","a","u","s","e"," ","o","f"," ","t","h","i","s">> >>,
       << <<"T","o">> >>,
       << <<"B","e","c","a","u","s","e">> >>,
       << <<"I","f">> >>,
       << <<"F","o","r">> >>,
       << <<"A","b","o","u","t">> >>,
       << <<"F","o","r">> >>,
       << <<>> >>,
       << <<"C","o","n","s","i","d","e","r">> >>,
       << <<"Y","o","u"," ","s","h","o","u","l","d">> >>,
       << <<"Y","o","u"," ","n","e","e","d"," ","t","o">> >>
    >>

\* the values of self.formal_words, in the order of its keys
FormalWordReplacements ==
    <<
       <<"u","s","e">>,
       <<"t","r","y">>,
       <<"h","e","l","p">>,
       <<"d","o">>,
       <<"f","i","n","d"," ","o","u","t">>,
       <<"s","t","a","r","t">>,
       <<"e","n","d">>,
       <<"g","e","t">>,
       <<"b","u","y">>,
       <<"g","i","v","e">>,
       <<"h","e","l","p">>,
       <<"n","e","e","d">>,
       <<"e","n","o","u","g","h">>,
       <<"m","a","n","y">>,
       <<"b","e","f","o","r","e">>,
       <<"a","f","t","e","r">>,
       <<"a","b","o","u","t">>,
       <<"a","b","o","u","t">>,
       <<"m","e","n","t","i","o","n","e","d">>,
       <<"u","n","t","i","l"," ","n","o","w">>,
       <<"i","n","s","t","e","a","d"," ","o","f">>
    >>

\* self.formal_contractions, in its order: <<formal, contracted>>
FormalContractions ==
    <<
       << <<"d","o"," ","n","o","t">>, <<"d","o","n","'","t">> >>,
       << <<"d","o","e","s"," ","n","o","t">>, <<"d","o","e","s","n","'","t">> >>,
       << <<"i","s"," ","n","o","t">>, <<"i","s","n","'","t">> >>,
       << <<"a","r","e"," ","n","o","t">>, <<"a","r","e","n","'","t">> >>,
       << <<"w","a","s"," ","n","o","t">>, <<"w","a","s","n","'","t">> >>,
       << <<"w","e","r","e"," ","n","o","t">>, <<"w","e","r","e","n","'","t">> >>,
       << <<"h","a","v","e"," ","n","o","t">>, <<"h","a","v","e","n","'","t">> >>,
       << <<"h","a","s"," ","n","o","t">>, <<"h","a","s","n","'","t">> >>,
       << <<"w","i","l","l"," ","n","o","t">>, <<"w","o","n","'","t">> >>,
       << <<"w","o","u","l","d"," ","n","o","t">>, <<"w","o","u","l","d","n","'","t">> >>,
       << <<"s","h","o","u","l","d"," ","n","o","t">>, <<"s","h","o","u","l","d","n","'","t">> >>,
       << <<"c","o","u","l","d"," ","n","o","t">>, <<"c","o","u","l","d","n","'","t">> >>,
       << <<"c","a","n","n","o","t">>, <<"c","a","n","'","t">> >>,
       << <<"i","t"," ","i","s">>, <<"i","t","'","s">> >>,
       << <<"t","h","a","t"," ","i","s">>, <<"t","h","a","t","'","s">> >>,
       << <<"t","h","e","r","e"," ","i","s">>, <<"t","h","e","r","e","'","s">> >>,
       << <<"w","h","a","t"," ","i","s">>, <<"w","h","a","t","'","s">> >>,
       << <<"w","h","o"," ","i","s">>, <<"w","h","o","'","s">> >>,
       << <<"t","h","e","y"," ","a","r","e">>, <<"t","h","e","y","'","r","e">> >>,
       << <<"w","e"," ","a","r","e">>, <<"w","e","'","r","e">> >>,
       << <<"y","o","u"," ","a","r","e">>, <<"y","o","u","'","r","e">> >>
    >>

\* overly_polite with its replacements: <<phrase, replacement>>
OverlyPolite ==
    <<
       << <<"I"," ","w","o","u","l","d"," ","l","i","k","e"," ","t","o">>, <<"I"," ","w","a","n","t"," ","t","o">> >>,
       << <<"I"," ","w","o","u","l","d"," ","b","e"," ","h","a","p","p","y"," ","t","o">>, <<"I"," ","c","a","n">> >>,
       << <<"I"," ","w","o","u","l","d"," ","b","e"," ","g","l","a","d"," ","t","o">>, <<"I"," ","c","a","n">> >>,
       << <<"I","f"," ","y","o","u"," ","w","o","u","l","d"," ","l","i","k","e">>, <<"I","f"," ","y","o","u"," ","w","a","n","t">> >>,
       << <<"P","l","e","a","s","e"," ","f","e","e","l"," ","f","r","e","e"," ","t","o">>, <<"F","e","e","l"," ","f","r","e","e"," ","t","o">> >>,
       << <<"I"," ","h","o","p","e"," ","t","h","i","s"," ","h","e","l","p","s">>, <<>> >>,
       << <<"I"," ","h","o","p","e"," ","t","h","i","s"," ","i","n","f","o","r","m","a","t","i","o","n"," ","i","s"," ","h","e","l","p","f","u","l">>, <<>> >>
    >>

Interjections ==
    << <<"W","e","l","l",","," ">>, <<"S","o",","," ">>, <<"N","o","w",","," ">>, <<"L","o","o","k",","," ">>, <<"A","c","t","u","a","l","l","y",","," ">> >>

\* very_replacements, in its order: <<phrase, alternatives>>
VeryReplacements ==
    <<
       << <<"v","e","r","y"," ","g","o","o","d">>, << <<"g","r","e","a","t">>, <<"e","x","c","e","l","l","e","n","t">>, <<"f","a","n","t","a","s","t","i","c">> >> >>,
       << <<"v","e","r","y"," ","b","a","d">>, << <<"t","e","r","r","i","b","l","e">>, <<"a","w","f","u","l">>, <<"h","o","r","r","i","b","l","e">> >> >>,
       << <<"v","e","r","y"," ","b","i","g">>, << <<"h","u","g","e">>, <<"m","a","s","s","i","v","e">>, <<"e","n","o","r","m","o","u","s">> >> >>,
       << <<"v","e","r","y"," ","s","m","a","l","l">>, << <<"t","i","n","y">>, <<"m","i","n","u","s","c","u","l","e">> >> >>,
       << <<"v","e","r","y"," ","i","m","p","o","r","t","a","n","t">>, << <<"c","r","u","c","i","a","l">>, <<"v","i","t","a","l">>, <<"e","s","s","e","n","t","i","a","l">> >> >>,
       << <<"v","e","r","y"," ","i","n","t","e","r","e","s","t","i","n","g">>, << <<"f","a","s","c","i","n","a","t","i","n","g">>, <<"i","n","t","r","i","g","u","i","n","g">> >> >>
    >>

\* str.upper() of one character
UpperChar(c) ==
    IF c \in LowerSet THEN UpperLetters[CHOOSE i \in 1..26 : LowerLetters[i] = c] ELSE c

\* sep.join(pieces)
RECURSIVE Join(_, _)
Join(pieces, sep) ==
    IF pieces = <<>> THEN <<>>
    ELSE IF Len(pieces) = 1 THEN pieces[1]
    ELSE pieces[1] \o sep \o Join(Tail(pieces), sep)

\* w stands at position i of s
MatchAt(s, i, w) ==
    /\ i + Len(w) - 1 <= Len(s)
    /\ \A j \in 1..Len(w) : s[i + j - 1] = w[j]

\* s from position i on with new in the place of the matches of the given
\* width that start at hits: the leftmost match first, the next one behind it
RECURSIVE SubFrom(_, _, _, _, _)
SubFrom(s, hits, width, new, i) ==
    LET later == {p \in hits : p >= i}
    IN  IF later = {} THEN SubSeq(s, i, Len(s))
        ELSE SubSeq(s, i, Least(later) - 1) \o new
             \o SubFrom(s, hits, width, new, Least(later) + width)

\* str.replace(old, new)
Replace(s, old, new) ==
    SubFrom(s, {p \in 1..Len(s) : MatchAt(s, p, old)}, Len(old), new, 1)

\* re.sub(old, new, s, flags=re.IGNORECASE) for a lower-case literal old
ReplaceIgnoreCase(s, old, new) ==
    SubFrom(s, {p \in 1..Len(s) : MatchAt(Lower(s), p, old)}, Len(old), new, 1)

\* re.compile(r'\b' + old + r'\b', re.IGNORECASE).sub(new, s)
ReplaceWholeWordIgnoreCase(s, old, new) ==
    SubFrom(s, {p \in 1..Len(s) : WholeWordAt(Lower(s), p, old)}, Len(old), new, 1)

\* str.split(sep)
RECURSIVE SplitOnFrom(_, _, _)
SplitOnFrom(s, sep, i) ==
    LET hits == {p \in i..Len(s) : MatchAt(s, p, sep)}
    IN  IF hits = {} THEN <<SubSeq(s, i, Len(s))>>
        ELSE <<SubSeq(s, i, Least(hits) - 1)>>
             \o SplitOnFrom(s, sep, Least(hits) + Len(sep))

\* y, once x is computed: a text is computed before the next step of a
\* loop starts from it
After(x, y) == IF x = x THEN y ELSE y

\* the characters of s at the positions of keep, in their order
Pick(s, keep) ==
    LET kept == SelectSeq([i \in 1..Len(s) |-> i], LAMBDA i : i \in keep)
    IN  AsTuple([k \in 1..Len(kept) |-> s[kept[k]]])

\* the characters [●○■□▪▫]
Bullets == {"U25CF", "U25CB", "U25A0", "U25A1", "U25AA", "U25AB"}

RemoveAiSymbols(t) ==
    LET kept == SelectSeq(t, LAMBDA c : c \notin Range(AiSymbols))
    IN  AsTuple([i \in 1..Len(kept) |-> IF kept[i] \in Bullets THEN "-" ELSE kept[i]])

\* the texts _replace_ai_phrases can return from phrase k on: one for each
\* random.choice among the alternatives of a phrase that is in the text
RECURSIVE ReplaceAiPhrasesFrom(_, _)
ReplaceAiPhrasesFrom(t, k) ==
    IF k > Len(AiPhrases) THEN {t}
    ELSE IF ~Contains(t, AiPhrases[k]) THEN ReplaceAiPhrasesFrom(t, k + 1)
    ELSE LET replaced == {Replace(t, AiPhrases[k], AiPhraseAlternatives[k][a]) :
                              a \in 1..Len(AiPhraseAlternatives[k])}
         IN  UNION {ReplaceAiPhrasesFrom(r, k + 1) : r \in replaced}

ReplaceAiPhrases(t) == ReplaceAiPhrasesFrom(t, 1)

\* the characters of '.,!?;:'
PunctuationMarks == {".", ",", "!", "?", ";", ":"}

\* str.strip(chars)
StripChars(s, chars) ==
    LET keep == {i \in 1..Len(s) : s[i] \notin chars}
    IN  IF keep = {} THEN <<>>
        ELSE SubSeq(s, CHOOSE i \in keep : \A j \in keep : i <= j,
                       CHOOSE i \in keep : \A j \in keep : j <= i)

\* str.capitalize()
Capitalize(s) == IF s = <<>> THEN s ELSE <<UpperChar(s[1])>> \o Lower(Tail(s))

\* the body of the loop of _reduce_formality
ReduceFormalityOfWord(word) ==
    LET clean_word == StripChars(Lower(word), PunctuationMarks)
        keys == {k \in 1..Len(FormalWords) : FormalWords[k] = clean_word}
        punct == SelectSeq(word, LAMBDA c : c \in PunctuationMarks)
        new_word == FormalWordReplacements[Least(keys)]
    IN  IF keys = {} THEN word
        ELSE (IF word[1] \in UpperSet THEN Capitalize(new_word) ELSE new_word) \o punct

ReduceFormality(t) ==
    LET words == Split(t)
    IN  Join([i \in 1..Len(words) |-> ReduceFormalityOfWord(words[i])], <<" ">>)

RECURSIVE AddContractionsFrom(_, _)
AddContractionsFrom(t, k) ==
    IF k > Len(FormalContractions) THEN t
    ELSE LET contracted == ReplaceWholeWordIgnoreCase(
                               t, FormalContractions[k][1], FormalContractions[k][2])
         IN  After(contracted, AddContractionsFrom(contracted, k + 1))

AddContractions(t) == AddContractionsFrom(t, 1)

\* what the loop of _vary_sentence_structure appends for one sentence and
\* the punctuation behind it
VarySentence(sentence, punct) ==
    LET commas == {i \in 1..Len(sentence) : sentence[i] = ","}
        first == Least(commas)
        remaining == Strip(SubSeq(sentence, first + 1, Len(sentence)))
    IN  IF Len(Split(sentence)) > 30 /\ commas # {}
        THEN <<Strip(SubSeq(sentence, 1, first - 1)) \o <<".">>>>
             \o (IF remaining # <<>>
                 THEN <<(<<UpperChar(remaining[1])>> \o Tail(remaining)) \o punct>>
                 ELSE <<>>)
        ELSE <<sentence \o punct>>

\* the sentences written from position i on; the loop runs over the pairs
\* of a piece and the punctuation behind it, so it leaves out the piece
\* behind the last punctuation
RECURSIVE VaryFrom(_, _)
VaryFrom(s, i) ==
    LET b == FirstIn(s, i, SentenceEnd)
        e == FirstNotIn(s, b, SentenceEnd)
    IN  IF b > Len(s) THEN <<>>
        ELSE VarySentence(SubSeq(s, i, b - 1), SubSeq(s, b, e - 1)) \o VaryFrom(s, e)

VarySentenceStructure(t) == Join(VaryFrom(t, 1), <<" ">>)

RECURSIVE ReducePolitenessFrom(_, _)
ReducePolitenessFrom(t, k) ==
    IF k > Len(OverlyPolite) THEN t
    ELSE LET replaced == Replace(t, OverlyPolite[k][1], OverlyPolite[k][2])
         IN  After(replaced, ReducePolitenessFrom(replaced, k + 1))

ReducePoliteness(t) == ReducePolitenessFrom(t, 1)

\* '. '
SentenceGap == <<".", " ">>

\* the texts the first half of _add_natural_elements can leave: one for
\* each random.randint(1, min(len(sentences) - 1, 3)) and random.choice
AddInterjection(t) ==
    LET sentences == SplitOnFrom(t, SentenceGap, 1)
        n == Len(sentences)
        last == IF n - 1 < 3 THEN n - 1 ELSE 3
    IN  IF n <= 3 THEN {t}
        ELSE UNION {IF \E k \in 1..Len(Interjections) :
                           MatchAt(sentences[idx + 1], 1, Interjections[k])
                    THEN {t}
                    ELSE {Join([sentences EXCEPT ![idx + 1] = Interjections[k] \o @],
                               SentenceGap) : k \in 1..Len(Interjections)} :
                    idx \in 1..last}

\* the texts the second half of _add_natural_elements can leave from
\* phrase k on
RECURSIVE ReplaceVeryFrom(_, _)
ReplaceVeryFrom(t, k) ==
    IF k > Len(VeryReplacements) THEN {t}
    ELSE IF ~Contains(Lower(t), VeryReplacements[k][1]) THEN ReplaceVeryFrom(t, k + 1)
    ELSE LET replaced == {ReplaceIgnoreCase(t, VeryReplacements[k][1], VeryReplacements[k][2][a]) :
                              a \in 1..Len(VeryReplacements[k][2])}
         IN  UNION {ReplaceVeryFrom(r, k + 1) : r \in replaced}

AddNaturalElements(t) ==
    UNION {ReplaceVeryFrom(interjected, 1) : interjected \in AddInterjection(t)}

\* re.sub(r' +', ' ', s)
CollapseSpaces(s) ==
    Pick(s, {i \in 1..Len(s) : ~(s[i] = " " /\ i > 1 /\ s[i - 1] = " ")})

\* re.sub(r' ([.,!?;:])', r'\1', s)
NoSpaceBeforePunctuation(s) ==
    Pick(s, {i \in 1..Len(s) : ~(s[i] = " " /\ i < Len(s) /\ s[i + 1] \in PunctuationMarks)})

RECURSIVE SpaceBehindFrom(_, _, _)
SpaceBehindFrom(s, at, i) ==
    LET later == {p \in at : p >= i}
    IN  IF later = {} THEN SubSeq(s, i, Len(s))
        ELSE SubSeq(s, i, Least(later)) \o <<" ">> \o SpaceBehindFrom(s, at, Least(later) + 1)

\* re.sub(r'([.,!?;:])([A-Za-z])', r'\1 \2', s)
SpaceAfterPunctuation(s) ==
    SpaceBehindFrom(s, {i \in 1..(Len(s) - 1) :
                           /\ s[i] \in PunctuationMarks
                           /\ s[i + 1] \in LowerSet \cup UpperSet}, 1)

\* re.sub(r'\n\n+', '\n\n', s)
CollapseBlankLines(s) ==
    Pick(s, {i \in 1..Len(s) : ~(s[i] = "\n" /\ i > 2 /\ s[i - 1] = "\n" /\ s[i - 2] = "\n")})

\* re.sub(r'\. +([A-Z])', r'. \1', s): of the spaces between a full stop and
\* a capital letter the first one stays
FixSentenceSpacing(s) ==
    Pick(s, {i \in 1..Len(s) :
                ~(/\ s[i] = " "
                  /\ \E d \in 1..(i - 2) : s[d] = "." /\ \A k \in (d + 1)..i : s[k] = " "
                  /\ LET e == FirstNotIn(s, i, {" "})
                     IN  e <= Len(s) /\ s[e] \in UpperSet)})

CleanFormatting(t) ==
    Strip(FixSentenceSpacing(CollapseBlankLines(SpaceAfterPunctuation(
              NoSpaceBeforePunctuation(CollapseSpaces(t))))))

\* the texts humanize_text can return for t, one for each outcome of its
\* random choices
HumanizeTextOutcomes(t) ==
    LET phrased == ReplaceAiPhrases(RemoveAiSymbols(t))
        informal == {ReduceFormality(h) : h \in phrased}
        contracted == {AddContractions(h) : h \in informal}
        varied == {VarySentenceStructure(h) : h \in contracted}
        polite == {ReducePoliteness(h) : h \in varied}
        natural == UNION {AddNaturalElements(h) : h \in polite}
    IN  {CleanFormatting(h) : h \in natural}

(***************************************************************************)
(* The calls of humanize_text, on a text put together from fragments.      *)
(***************************************************************************)
\* "As an AI language model, I would like to utilize it. "
PoliteDisclaimer ==
    <<"A","s"," ","a","n"," ","A","I"," ","l","a","n","g","u","a","g","e"," ","m","o","d","e","l",","," ","I"," ","w","o","u","l","d"," ","l","i","k","e"," ","t","o"," ","u","t","i","l","i","z","e"," ","i","t","."," ">>

\* "As an AI\nlanguage model, I cannot say. "
WrappedDisclaimer ==
    <<"A","s"," ","a","n"," ","A","I","\n","l","a","n","g","u","a","g","e"," ","m","o","d","e","l",","," ","I"," ","c","a","n","n","o","t"," ","s","a","y","."," ">>

\* "hello world "
PlainWords ==
    <<"h","e","l","l","o"," ","w","o","r","l","d"," ">>

\* "However, it is VERY good. Do not go. "
HoweverSentences ==
    <<"H","o","w","e","v","e","r",","," ","i","t"," ","i","s"," ","V","E","R","Y"," ","g","o","o","d","."," ","D","o"," ","n","o","t"," ","g","o","."," ">>

\* "Furthermore, see U+2605 this U+25CF. "
SymbolSentence ==
    <<"F","u","r","t","h","e","r","m","o","r","e",","," ","s","e","e"," ","U2605"," ","t","h","i","s"," ","U25CF","."," ">>

\* "we went to the park, and then we sat on the old bench and we ate the bread and the jam and the cheese and we talked and we sang and so on and on! "
LongSentence ==
    <<"w","e"," ","w","e","n","t"," ","t","o"," ","t","h","e"," ","p","a","r","k",","," ","a","n","d"," ","t","h","e","n"," ","w","e"," ","s","a","t"," ","o","n"," ","t","h","e"," ","o","l","d"," ","b","e","n","c","h"," ","a","n","d"," ","w","e"," ","a","t","e"," ","t","h","e"," ","b","r","e","a","d"," ","a","n","d"," ","t","h","e"," ","j","a","m"," ","a","n","d"," ","t","h","e"," ","c","h","e","e","s","e"," ","a","n","d"," ","w","e"," ","t","a","l","k","e","d"," ","a","n","d"," ","w","e"," ","s","a","n","g"," ","a","n","d"," ","s","o"," ","o","n"," ","a","n","d"," ","o","n","!"," ">>

HumanizeFragments ==
    {PoliteDisclaimer,
     WrappedDisclaimer,
     PlainWords,
     HoweverSentences,
     SymbolSentence,
     LongSentence}

HumanizeTexts == FragmentTexts(HumanizeFragments, MaxHumanizeFrags)

InitHumanize ==
    /\ text \in HumanizeTexts /\ args = NoArgs /\ result = NoResult
    /\ instances = FreshInstances /\ callers = NoCallers

\* one call on the text: a further call on it returns one of the same texts
HumanizeText ==
    /\ result = NoResult
    /\ \E humanized \in HumanizeTextOutcomes(text) :
           result' = [op |-> "humanize_text", humanized |-> humanized]
    /\ UNCHANGED <<text, args, instances, callers>>

NextHumanize == HumanizeText

SpecHumanize == InitHumanize /\ [][NextHumanize]_vars

(***************************************************************************)
(* The three core operations, each on a text drawn over the small          *)
(* alphabet.                                                               *)
(***************************************************************************)
NextCore == AnalyzeText \/ DetectBias \/ AnalyzeAILikelihood

SpecCore == InitText /\ [][NextCore]_vars

(***************************************************************************)
(* Several callers on shared objects.  A call of analyze_text takes two     *)
(* steps, the metrics of the text and then the comparison with the         *)
(* benchmark table of the analyzer; the other calls take one.  A caller    *)
(* keeps what its last call returned until it makes the next call.         *)
(***************************************************************************)
\* standards = self.quality_standards[text_type], after the fallback
StandardsOf(analyzer, text_type) ==
    IF text_type \notin DOMAIN analyzer.quality_standards
    THEN analyzer.quality_standards["essay"]
    ELSE analyzer.quality_standards[text_type]

\* _compare_to_standards on the tables of one analyzer
CompareOn(analyzer, m, text_type) ==
    StandardsReport(m.word_count, m.paragraph_count, m.avg_sentence_length,
                    m.vocabulary_diversity, StandardsOf(analyzer, text_type))

InstanceAfterCompareRelaxed(analyzer, text_type) ==
    [analyzer EXCEPT !.quality_standards["essay"].min_words = 0]

InstanceAfterCompareCached(analyzer, text_type) ==
    [analyzer EXCEPT !.quality_standards =
        [g \in DOMAIN @ \cup {text_type} |-> StandardsOf(analyzer, g)]]

\* the analyzer after _compare_to_standards: the method assigns to its
\* locals only (text_type, standards, score, feedback, strengths)
InstanceAfterCompare(analyzer, text_type) == analyzer

\* the arguments analyze_text hands to _compare_to_standards
MetricsOf(t) ==
    LET word_count == CountWords(t)
        sentence_count == CountSentences(t)
    IN  [word_count |-> word_count,
         sentence_count |-> sentence_count,
         paragraph_count |-> CountParagraphs(t),
         avg_sentence_length |->
             IF sentence_count > 0 THEN Rat(word_count, sentence_count) ELSE RInt(0),
         vocabulary_diversity |->
             IF word_count > 0 THEN Rat(CountUniqueWords(t), word_count) ELSE RInt(0)]

\* "hello world. "
HelloSentence ==
    <<"h","e","l","l","o"," ","w","o","r","l","d","."," ">>

SharedTexts == {HelloSentence, ChairmanClause, DisclaimerSentence}

SharedMetrics ==
    {[word_count |-> 100, sentence_count |-> 5, paragraph_count |-> 4,
      avg_sentence_length |-> RInt(20), vocabulary_diversity |-> <<1, 2>>]}

SharedCalls ==
    {[op |-> "analyze_text", instance |-> i, text |-> t, text_type |-> g] :
        i \in InstanceIds, t \in {HelloSentence}, g \in TextTypes}
    \cup {[op |-> "compare_to_standards", instance |-> i, metrics |-> m, text_type |-> g] :
            i \in InstanceIds, m \in SharedMetrics, g \in {"essay", UnknownGenre}}
    \cup {[op |-> "detect_bias", instance |-> i, text |-> ChairmanClause] :
            i \in InstanceIds}
    \cup {[op |-> "analyze_ai_likelihood", instance |-> i, text |-> DisclaimerSentence] :
            i \in InstanceIds}

InitShared ==
    /\ text = <<>> /\ args = NoArgs /\ result = NoResult
    /\ instances = FreshInstances
    /\ callers = NoCallers

StartCall(c) ==
    /\ callers[c].pc \in {"idle", "done"}
    /\ \E call \in SharedCalls :
           callers' = [callers EXCEPT ![c] = [pc |-> "called", call |-> call]]
    /\ UNCHANGED <<text, args, result, instances>>

\* analyze_text up to the call of _compare_to_standards
AnalyzeTextMetrics(c) ==
    /\ callers[c].pc = "called" /\ callers[c].call.op = "analyze_text"
    /\ callers' = [callers EXCEPT ![c].pc = "measured"]
    /\ UNCHANGED <<text, args, result, instances>>

\* analyze_text from the call of _compare_to_standards to its return
AnalyzeTextCompare(c) ==
    LET call == callers[c].call
        analyzer == instances[call.instance].analyzer
    IN  /\ callers[c].pc = "measured"
        /\ callers' = [callers EXCEPT ![c] =
               [pc |-> "done", call |-> call,
                result |-> [AnalyzeTextResult(call.text, call.text_type) EXCEPT
                               !.quality_score =
                                   CompareOn(analyzer, MetricsOf(call.text),
                                             call.text_type)]]]
        /\ instances' = [instances EXCEPT ![call.instance].analyzer =
                             InstanceAfterCompare(analyzer, call.text_type)]
        /\ UNCHANGED <<text, args, result>>

SharedCompare(c) ==
    LET call == callers[c].call
        analyzer == instances[call.instance].analyzer
    IN  /\ callers[c].pc = "called" /\ call.op = "compare_to_standards"
        /\ callers' = [callers EXCEPT ![c] =
               [pc |-> "done", call |-> call,
                result |-> [op |-> "compare_to_standards",
                            report |-> CompareOn(analyzer, call.metrics, call.text_type)]]]
        /\ instances' = [instances EXCEPT ![call.instance].analyzer =
                             InstanceAfterCompare(analyzer, call.text_type)]
        /\ UNCHANGED <<text, args, result>>

SharedDetectBias(c) ==
    /\ callers[c].pc = "called" /\ callers[c].call.op = "detect_bias"
    /\ callers' = [callers EXCEPT ![c] =
           [pc |-> "done", call |-> callers[c].call,
            result |-> DetectBiasResult(callers[c].call.text)]]
    /\ UNCHANGED <<text, args, result, instances>>

SharedAnalyzeAI(c) ==
    /\ callers[c].pc = "called" /\ callers[c].call.op = "analyze_ai_likelihood"
    /\ callers' = [callers EXCEPT ![c] =
           [pc |-> "done", call |-> callers[c].call,
            result |-> AnalyzeAILikelihoodResult(callers[c].call.text)]]
    /\ UNCHANGED <<text, args, result, instances>>

NextShared ==
    \E c \in Callers :
        \/ StartCall(c)
        \/ AnalyzeTextMetrics(c)
        \/ AnalyzeTextCompare(c)
        \/ SharedCompare(c)
        \/ SharedDetectBias(c)
        \/ SharedAnalyzeAI(c)

SpecShared == InitShared /\ [][NextShared]_vars

(***************************************************************************)
(* TextFormatter.format_text and TextProcessingApp.process_text.           *)
(***************************************************************************)
\* the keys of self.formats
Formats ==
    {<<"m","l","a">>, <<"e","s","s","a","y">>, <<"l","e","t","t","e","r">>,
     <<"c","o","v","e","r","_","l","e","t","t","e","r">>, <<"r","e","s","u","m","e">>,
     <<"p","l","a","i","n">>}

PlainFormat == <<"p","l","a","i","n">>

\* '\n\n'
BlankLine == <<"\n", "\n">>

FormatPlain(t) ==
    LET paragraphs == SelectSeq(SplitOnFrom(CollapseSpaces(t), BlankLine, 1), NonBlank)
    IN  Join([i \in 1..Len(paragraphs) |-> Join(Split(paragraphs[i]), <<" ">>)], BlankLine)

\* common_sections
CommonSections ==
    <<
       <<"p","r","o","f","e","s","s","i","o","n","a","l"," ","s","u","m","m","a","r","y">>,
       <<"s","u","m","m","a","r","y">>,
       <<"o","b","j","e","c","t","i","v","e">>,
       <<"e","x","p","e","r","i","e","n","c","e">>,
       <<"w","o","r","k"," ","e","x","p","e","r","i","e","n","c","e">>,
       <<"p","r","o","f","e","s","s","i","o","n","a","l"," ","e","x","p","e","r","i","e","n","c","e">>,
       <<"e","d","u","c","a","t","i","o","n">>,
       <<"s","k","i","l","l","s">>,
       <<"t","e","c","h","n","i","c","a","l"," ","s","k","i","l","l","s">>,
       <<"c","e","r","t","i","f","i","c","a","t","i","o","n","s">>,
       <<"p","r","o","j","e","c","t","s">>,
       <<"a","c","h","i","e","v","e","m","e","n","t","s">>,
       <<"a","w","a","r","d","s">>,
       <<"p","u","b","l","i","c","a","t","i","o","n","s">>,
       <<"l","a","n","g","u","a","g","e","s">>
    >>

\* str.upper()
Upper(s) == AsTuple([i \in 1..Len(s) |-> UpperChar(s[i])])

\* c * n
Repeat(c, n) == [i \in 1..n |-> c]

\* str.center(width): of an odd number of spaces to add to an odd width the
\* left side gets the extra one
Center(s, width) ==
    LET marg == width - Len(s)
        left == (marg \div 2) + (IF marg % 2 = 1 /\ width % 2 = 1 THEN 1 ELSE 0)
    IN  IF marg <= 0 THEN s
        ELSE Repeat(" ", left) \o s \o Repeat(" ", marg - left)

\* the loop of _parse_resume_sections from line i on and what it adds
\* behind the loop; no section yet is the empty current_section
RECURSIVE ParseResumeFrom(_, _, _, _, _)
ParseResumeFrom(lines, i, current_section, section_content, formatted) ==
    LET saved ==
            IF current_section = <<>> THEN formatted
            ELSE formatted \o Upper(current_section) \o <<"\n">> \o Repeat("-", 40)
                 \o <<"\n">> \o Join(section_content, <<"\n">>) \o BlankLine
    IN  IF i > Len(lines) THEN saved
        ELSE LET line == lines[i]
                 line_lower == Strip(Lower(line))
                 is_section ==
                     /\ Len(line_lower) < 50
                     /\ \E k \in 1..Len(CommonSections) :
                            Contains(line_lower, CommonSections[k])
             IN  IF is_section
                 THEN ParseResumeFrom(lines, i + 1, Strip(line), <<>>, saved)
                 ELSE ParseResumeFrom(lines, i + 1, current_section,
                          IF Strip(line) # <<>> THEN Append(section_content, line)
                          ELSE section_content,
                          formatted)

ParseResumeSections(t) ==
    LET formatted == ParseResumeFrom(SplitOnFrom(t, <<"\n">>, 1), 1, <<>>, <<>>, <<>>)
    IN  IF formatted = <<>> THEN t ELSE formatted

ResumeFormat == <<"r","e","s","u","m","e">>

\* _format_resume without keyword arguments: the header of the default
\* name and contact line, and the sections parsed from the text
FormatResume(t) ==
    <<"\n">> \o Center(Upper(<<"[","Y","o","u","r"," ","N","a","m","e","]">>), 80) \o <<"\n">>
    \o Center(<<"[","P","h","o","n","e","]"," ","|"," ","[","E","m","a","i","l","]"," ","|"," ","[","A","d","d","r","e","s","s","]">>, 80) \o <<"\n">>
    \o Repeat("=", 80) \o BlankLine \o ParseResumeSections(t)

ValueError == [raised |-> "ValueError"]

\* format_text without keyword arguments: the ValueError of an unknown
\* format type, or the text of the formatter (of the six, 'plain' and
\* 'resume' are the ones the calls of this model name)
FormatText(t, format_type) ==
    IF Lower(format_type) \notin Formats THEN ValueError
    ELSE CASE Lower(format_type) = PlainFormat -> [formatted |-> FormatPlain(t)]
           [] Lower(format_type) = ResumeFormat -> [formatted |-> FormatResume(t)]

\* options.get(key, default): an options dictionary is a function on the
\* keys it holds
Get(options, key, default) == IF key \in DOMAIN options THEN options[key] ELSE default

\* bool(options.get('format_type')): the key is held and its value is not ''
HasFormatType(options) == "format_type" \in DOMAIN options /\ options.format_type # <<>>

\* ['essay', 'cover_letter', 'resume', 'letter'] with the genre each names
GenreOfFormat ==
    {<< <<"e","s","s","a","y">>, "essay" >>,
     << <<"c","o","v","e","r","_","l","e","t","t","e","r">>, "cover_letter" >>,
     << <<"r","e","s","u","m","e">>, "resume" >>,
     << <<"l","e","t","t","e","r">>, "letter" >>}

\* text_type of step 5: options.get('format_type', 'essay'), and 'essay' for
\* a value that is not in the list
StatisticsTextType(options) ==
    LET named == {pair \in GenreOfFormat : pair[1] = Get(options, "format_type", <<>>)}
    IN  IF "format_type" \notin DOMAIN options \/ named = {} THEN "essay"
        ELSE (CHOOSE pair \in named : TRUE)[2]

\* the keys process_text has written to results['analyses'] when it returns,
\* reading a flag that is absent as True
AnalysisKeysOptOut(options) ==
    {"statistics"}
    \cup (IF Get(options, "detect_bias", TRUE) THEN {"bias"} ELSE {})
    \cup (IF Get(options, "analyze_ai", TRUE) THEN {"ai_detection"} ELSE {})

\* the keys process_text has written to results['analyses'] when it returns
AnalysisKeys(options) ==
    {"statistics"}
    \cup (IF Get(options, "detect_bias", FALSE) THEN {"bias"} ELSE {})
    \cup (IF Get(options, "analyze_ai", FALSE) THEN {"ai_detection"} ELSE {})

\* process_text with the bias and AI analyses made on the processed text
ProcessTextFromProcessed(t, options, humanized) ==
    LET formats == HasFormatType(options)
        formatted == FormatText(humanized, options.format_type)
        processed_text == IF formats THEN formatted.formatted ELSE humanized
    IN  IF formats /\ formatted = ValueError
        THEN [op |-> "process_text", raised |-> "ValueError"]
        ELSE [op |-> "process_text",
              original_text |-> t,
              processed_text |-> processed_text,
              analyses |->
                  [key \in AnalysisKeys(options) |->
                      CASE key = "bias" -> DetectBiasResult(processed_text)
                        [] key = "ai_detection" -> AnalyzeAILikelihoodResult(processed_text)
                        [] key = "statistics" ->
                               AnalyzeTextResult(processed_text, StatisticsTextType(options))]]

\* what process_text returns or raises with step 3 having left humanized
ProcessTextFrom(t, options, humanized) ==
    LET formats == HasFormatType(options)
        formatted == FormatText(humanized, options.format_type)
        processed_text == IF formats THEN formatted.formatted ELSE humanized
    IN  IF formats /\ formatted = ValueError
        THEN [op |-> "process_text", raised |-> "ValueError"]
        ELSE [op |-> "process_text",
              original_text |-> t,
              processed_text |-> processed_text,
              analyses |->
                  [key \in AnalysisKeys(options) |->
                      CASE key = "bias" -> DetectBiasResult(t)
                        [] key = "ai_detection" -> AnalyzeAILikelihoodResult(t)
                        [] key = "statistics" ->
                               AnalyzeTextResult(processed_text, StatisticsTextType(options))]]

\* what process_text can return or raise, one outcome for each outcome of
\* humanize_text
ProcessTextOutcomes(t, options) ==
    {ProcessTextFrom(t, options, humanized) :
         humanized \in IF Get(options, "humanize", FALSE) THEN HumanizeTextOutcomes(t) ELSE {t}}

(***************************************************************************)
(* The calls of process_text.                                              *)
(***************************************************************************)
\* "the  board met.\n\n\nit was  late. "
SpacedParagraphs ==
    <<"t","h","e"," "," ","b","o","a","r","d"," ","m","e","t",".","\n","\n","\n","i","t"," ","w","a","s"," "," ","l","a","t","e","."," ">>

\* "Skills\npython and sql\n\nEducation:\nBSc in 2019. "
ResumeNotes ==
    <<"S","k","i","l","l","s","\n","p","y","t","h","o","n"," ","a","n","d"," ","s","q","l","\n","\n","E","d","u","c","a","t","i","o","n",":","\n","B","S","c"," ","i","n"," ","2","0","1","9","."," ">>

ProcessTexts ==
    SharedTexts \cup {PlainWords, HoweverSentences, SpacedParagraphs, ResumeNotes}

\* '', 'plain', 'PLAIN', 'resume', 'RESUME' and 'memo'
FormatTypes ==
    {<<>>, PlainFormat, <<"P","L","A","I","N">>, ResumeFormat,
     <<"R","E","S","U","M","E">>, <<"m","e","m","o">>}

FlagKeys == {"detect_bias", "analyze_ai", "humanize"}

\* the dictionary with the flags of on set to True, those of off set to
\* False and the format types of formats under 'format_type'
OptionsOf(on, off, formats) ==
    [key \in on \cup off \cup {"format_type" : f \in formats} |->
        IF key = "format_type" THEN CHOOSE f \in formats : TRUE ELSE key \in on]

\* the dictionaries that hold each flag as True, as False or not at all, and
\* one of the format types or none
OptionsDictionaries ==
    {OptionsOf(on, off, formats) :
         on \in SUBSET FlagKeys, off \in SUBSET FlagKeys,
         formats \in {{}} \cup {{f} : f \in FormatTypes}}

InitApp ==
    /\ text \in ProcessTexts
    /\ args \in {[call |-> "process_text", options |-> options] :
                     options \in OptionsDictionaries}
    /\ result = NoResult
    /\ instances = FreshInstances /\ callers = NoCallers

\* one call on the text and the options
ProcessText ==
    /\ result = NoResult
    /\ result' \in ProcessTextOutcomes(text, args.options)
    /\ UNCHANGED <<text, args, instances, callers>>

NextApp == ProcessText

SpecApp == InitApp /\ [][NextApp]_vars

(***************************************************************************)
(* Direct calls of _get_most_common_words, on a text put together from     *)
(* words and with the number of words asked for drawn from a small set.    *)
(***************************************************************************)
\* "Hello "
HelloWord ==
    <<"H","e","l","l","o"," ">>

\* "hello, "
HelloComma ==
    <<"h","e","l","l","o",","," ">>

\* "WORLD!! "
WorldShout ==
    <<"W","O","R","L","D","!","!"," ">>

\* "w.o.r.l.d "
DottedWorld ==
    <<"w",".","o",".","r",".","l",".","d"," ">>

\* "cats "
CatsWord ==
    <<"c","a","t","s"," ">>

\* "cat "
CatWord ==
    <<"c","a","t"," ">>

\* "with "
WithWord ==
    <<"w","i","t","h"," ">>

\* "alpha bravo charlie delta2 echo_ foxtrot golf hotel india juliet kilos "
ElevenWords ==
    <<"a","l","p","h","a"," ","b","r","a","v","o"," ","c","h","a","r","l","i","e"," ","d","e","l","t","a","2"," ","e","c","h","o","_"," ","f","o","x","t","r","o","t"," ","g","o","l","f"," ","h","o","t","e","l"," ","i","n","d","i","a"," ","j","u","l","i","e","t"," ","k","i","l","o","s"," ">>

WordFragments ==
    {HelloWord, HelloComma, WorldShout, DottedWorld, CatsWord, CatWord, WithWord,
     ElevenWords}

WordTexts == FragmentTexts(WordFragments, MaxWordFrags)

\* the values of top_n: none, fewer than the words of most texts, and the
\* default of analyze_text
TopNs == {0, 1, 2, TopN}

InitWords ==
    /\ text \in WordTexts
    /\ args \in {[call |-> "get_most_common_words", top_n |-> n] : n \in TopNs}
    /\ result = NoResult
    /\ instances = FreshInstances /\ callers = NoCallers

GetMostCommonWordsCall ==
    /\ args.call = "get_most_common_words"
    /\ result' = [op |-> "get_most_common_words",
                  most_common_words |-> GetMostCommonWords(text, args.top_n)]
    /\ UNCHANGED <<text, args, instances, callers>>

NextWords == GetMostCommonWordsCall

SpecWords == InitWords /\ [][NextWords]_vars

(***************************************************************************)
(* Claims about the analyzer, checked under SpecText.                      *)
(***************************************************************************)
IsAnalysis == result.op = "analyze_text"

AllWhitespace(t) == \A i \in 1..Len(t) : t[i] \in Whitespace

SomeAlnum(t) == \E i \in 1..Len(t) : IsAlnum(t[i])

\* C1: analyze_text returns a vocabulary_diversity in [0, 1] that is 0
\* exactly when word_count is 0.
C1_DiversityInUnitInterval ==
    IsAnalysis =>
        /\ RLe(RInt(0), result.vocabulary_diversity)
        /\ RLe(result.vocabulary_diversity, RInt(1))
        /\ (result.vocabulary_diversity = RInt(0) <=> result.word_count = 0)

CountsNonNegative ==
    /\ result.word_count >= 0
    /\ result.sentence_count >= 0
    /\ result.paragraph_count >= 0
    /\ result.character_count >= 0
    /\ result.character_count_no_spaces >= 0
    /\ result.unique_words >= 0

\* C2, as stated: all counts are >= 0 and word_count is 0 only for empty or
\* whitespace-only input.
C2_ZeroWordsOnlyForBlankText ==
    IsAnalysis =>
        /\ CountsNonNegative
        /\ (result.word_count = 0 => AllWhitespace(text))

\* C2, amended: all counts are >= 0 and word_count is 0 exactly when the
\* text holds no alphanumeric character (empty, whitespace-only or made of
\* punctuation only).
C2_ZeroWordsIffNoAlnum ==
    IsAnalysis =>
        /\ CountsNonNegative
        /\ (result.word_count = 0 <=> ~SomeAlnum(text))

C2_Witness ==
    IsAnalysis /\ result.word_count = 0 /\ ~AllWhitespace(text)

\* C3: flesch_reading_ease is in [0, 100] and flesch_kincaid_grade is >= 0
\* for every text, and both are 0 when word_count = 0 or sentence_count = 0.
C3_ReadabilityClamped ==
    IsAnalysis =>
        /\ RLe(RInt(0), result.flesch_reading_ease)
        /\ RLe(result.flesch_reading_ease, RInt(100))
        /\ RLe(RInt(0), result.flesch_kincaid_grade)
        /\ (result.word_count = 0 \/ result.sentence_count = 0
              => /\ result.flesch_reading_ease = RInt(0)
                 /\ result.flesch_kincaid_grade = RInt(0))

\* a word of three syllables, whose unclamped score is below 0
C3_Witness ==
    /\ IsAnalysis
    /\ RLt(FleschReadingEaseUnclamped(text), RInt(0))
    /\ result.flesch_reading_ease = RInt(0)

\* the maximal runs of vowels of a lower-cased word
VowelRuns(w) ==
    Cardinality({i \in 1..Len(w) :
                    /\ w[i] \in {"a", "e", "i", "o", "u", "y"}
                    /\ (i = 1 \/ w[i - 1] \notin {"a", "e", "i", "o", "u", "y"})})

\* C4: the syllable estimator returns max(1, vowel runs of the lower-cased
\* word, minus 1 if it ends in 'e'), never below 1; 'the' -> 1,
\* 'banana' -> 3, 'rate' -> 1.
C4_SyllableEstimate ==
    result.op = "count_syllables" =>
        LET w == Lower(text)
            estimate == VowelRuns(w) - (IF Len(w) > 0 /\ w[Len(w)] = "e" THEN 1 ELSE 0)
        IN  /\ result.syllable_count = (IF estimate < 1 THEN 1 ELSE estimate)
            /\ result.syllable_count >= 1
            /\ (text = <<"t","h","e">> => result.syllable_count = 1)
            /\ (text = <<"b","a","n","a","n","a">> => result.syllable_count = 3)
            /\ (text = <<"r","a","t","e">> => result.syllable_count = 1)

C4_Witness ==
    /\ result.op = "count_syllables"
    /\ text = <<"r","a","t","e">>
    /\ result.syllable_count = 1

\* C6: the reading level analyze_text reports is always one of the five
\* named bands.
C6_ReadingLevelTotal ==
    IsAnalysis =>
        result.reading_level \in
            {"Elementary", "Middle School", "High School", "College", "Graduate"}

(***************************************************************************)
(* Claims about the direct calls, checked under SpecDirect.                *)
(***************************************************************************)
\* the table of the reading-level bands, as the specification gives it
BandTable ==
    << <<"Elementary", 0, 5>>, <<"Middle School", 6, 8>>, <<"High School", 9, 12>>,
       <<"College", 13, 16>> >>

BandsHolding(grade) ==
    {i \in 1..5 :
        IF i = 5 THEN RLe(RInt(17), grade)
        ELSE RLe(RInt(BandTable[i][2]), grade) /\ RLe(grade, RInt(BandTable[i][3]))}

BandName(i) == IF i = 5 THEN "Graduate" ELSE BandTable[i][1]

\* C5: the lookup returns the first band of the ordered table whose
\* inclusive range holds the grade, and 'Unknown' exactly when none does;
\* grade 7.0 is middle school and grade 20 is graduate.
C5_FirstBandHoldingGrade ==
    result.op = "get_reading_level" =>
        LET hits == BandsHolding(args.grade)
        IN  /\ hits # {} =>
                 result.reading_level = BandName(CHOOSE i \in hits : \A j \in hits : i <= j)
            /\ (result.reading_level = "Unknown" <=> hits = {})
            /\ (args.grade = RInt(7) => result.reading_level = "Middle School")
            /\ (args.grade = RInt(20) => result.reading_level = "Graduate")

C5_Witness ==
    /\ result.op = "get_reading_level"
    /\ args.grade = RInt(7)
    /\ result.reading_level = "Middle School"

HasFeedback(report, msg, k, value) ==
    \E i \in 1..Len(report.feedback) :
        /\ report.feedback[i].msg = msg
        /\ report.feedback[i].args[k] = value

\* C10: for genre 'essay' and a word_count below 300, whatever the other
\* metrics, the comparator takes 20 points off, appends a feedback entry
\* that names the 300-word minimum, and the score is <= 80.
C10_ShortEssayPenalty ==
    (result.op = "compare_to_standards" /\ args.text_type = "essay"
        /\ args.word_count < 300) =>
        /\ result.report.score <= 80
        /\ HasFeedback(result.report, "Text is too short", 2, 300)
        /\ result.report.score =
              CompareToStandards(500, args.sentence_count, args.paragraph_count,
                                 args.avg_sentence_length, args.vocabulary_diversity,
                                 "essay").score - 20

C10_Witness ==
    /\ result.op = "compare_to_standards"
    /\ args.text_type = "essay"
    /\ args.word_count = 100
    /\ result.report.score <= 80

\* C11: for a genre key that is none of essay, cover_letter, resume and
\* letter the comparator raises no error and returns the report (score,
\* assessment, feedback, strengths) that it returns for 'essay' on the same
\* metrics.
C11_UnknownGenreAsEssay ==
    (result.op = "compare_to_standards"
        /\ args.text_type \notin {"essay", "cover_letter", "resume", "letter"}) =>
        /\ DOMAIN result.report = {"score", "assessment", "feedback", "strengths"}
        /\ result.report =
              CompareToStandards(args.word_count, args.sentence_count,
                                 args.paragraph_count, args.avg_sentence_length,
                                 args.vocabulary_diversity, "essay")

\* the genre 'memo' with 100 words: the feedback names the minimum of essays
C11_Witness ==
    /\ result.op = "compare_to_standards"
    /\ args.text_type = UnknownGenre
    /\ args.word_count = 100
    /\ HasFeedback(result.report, "Text is too short", 2, 300)

\* C13: every report of the comparator has a score in [0, 100], and its
\* assessment follows from the score alone: >= 90 excellent, 75..89 good,
\* 60..74 acceptable, below 60 needs work.
C13_ScoreRangeAndAssessment ==
    result.op = "compare_to_standards" =>
        LET score == result.report.score
        IN  /\ 0 <= score /\ score <= 100
            /\ score >= 90 =>
                   result.report.assessment = "Excellent - Meets high-quality standards"
            /\ (75 <= score /\ score < 90) =>
                   result.report.assessment = "Good - Minor improvements recommended"
            /\ (60 <= score /\ score < 75) =>
                   result.report.assessment = "Acceptable - Several areas for improvement"
            /\ score < 60 =>
                   result.report.assessment = "Needs work - Significant improvements needed"

\* a report whose score is exactly on a threshold
C13_Witness ==
    /\ result.op = "compare_to_standards"
    /\ result.report.score = 75
    /\ result.report.assessment = "Good - Minor improvements recommended"

(***************************************************************************)
(* Claims about the bias detector, checked under SpecBias.                 *)
(***************************************************************************)
IsBiasReport == result.op = "detect_bias"

BiasCategories ==
    {"gender_bias", "racial_bias", "age_bias", "political_bias", "ability_bias",
     "socioeconomic_bias"}

\* the severity the specification fixes for each category
CategorySeverity ==
    [gender_bias |-> "medium", racial_bias |-> "high", age_bias |-> "medium",
     political_bias |-> "high", ability_bias |-> "medium",
     socioeconomic_bias |-> "high"]

\* the entries of the lexicon of a category
LexiconEntries(category) ==
    CASE category = "gender_bias" ->
             {GenderBiasedTerms[i].term : i \in 1..Len(GenderBiasedTerms)}
      [] category = "racial_bias" -> Range(RacialBiasTerms)
      [] category = "age_bias" -> Range(AgeBiasTerms)
      [] category = "political_bias" ->
             {PoliticalBiasWords[i].term : i \in 1..Len(PoliticalBiasWords)}
      [] category = "ability_bias" -> Range(AbilityBiasTerms)
      [] category = "socioeconomic_bias" -> Range(SocioeconomicBiasTerms)

IsSubstring(needle, hay) ==
    \E i \in 0..(Len(hay) - Len(needle)) : SubSeq(hay, i + 1, i + Len(needle)) = needle

\* the entry occurs: its lower-cased term, the parenthetical annotation
\* stripped, is a substring of the lower-cased text
Occurs(entry, t) == IsSubstring(TermKey(entry), Lower(t))

IssuesNaming(issues, entry) == {i \in 1..Len(issues) : issues[i].term = entry}

\* a whole word he, him, his, she, her or hers
HasPronoun(t) ==
    \E p \in 1..Len(t) :
        \/ \E k \in 1..Len(MasculinePronouns) : WholeWordAt(Lower(t), p, MasculinePronouns[k])
        \/ \E k \in 1..Len(FemininePronouns) : WholeWordAt(Lower(t), p, FemininePronouns[k])

OccurringEntries(t) ==
    UNION {{e \in LexiconEntries(c) : Occurs(e, t)} : c \in BiasCategories}

\* C7: in each of the six categories detect_bias reports exactly one Issue
\* for every lexicon entry that occurs in the text, with the severity of the
\* category, and none for an entry that does not occur; a text whose only
\* matches are 'chairman' and 'mankind' and that has no he/she pronoun gets
\* two gender Issues of severity medium and no Issue in the other five
\* categories.
C7_OneIssuePerOccurringEntry ==
    IsBiasReport =>
        /\ \A c \in BiasCategories :
               LET issues == result[c].issues
               IN  /\ \A e \in LexiconEntries(c) :
                          /\ Cardinality(IssuesNaming(issues, e))
                                = (IF Occurs(e, text) THEN 1 ELSE 0)
                          /\ \A i \in IssuesNaming(issues, e) :
                                 issues[i].severity = CategorySeverity[c]
                   /\ \A i \in 1..Len(issues) :
                          \/ issues[i].term \in LexiconEntries(c)
                          \/ c = "gender_bias" /\ issues[i].term = PronounImbalance
        /\ (OccurringEntries(text) = {<<"c","h","a","i","r","m","a","n">>,
                                      <<"m","a","n","k","i","n","d">>}
              /\ ~HasPronoun(text))
           => /\ Len(result.gender_bias.issues) = 2
              /\ \A i \in 1..2 : result.gender_bias.issues[i].severity = "medium"
              /\ \A c \in BiasCategories \ {"gender_bias"} : result[c].issues = <<>>

\* "The chairman discussed mankind's progress. "
C7_Witness ==
    /\ IsBiasReport
    /\ text = ChairmanClause \o MankindClause
    /\ Len(result.gender_bias.issues) = 2
    /\ result.racial_bias.issues = <<>>

IssueCount(r) ==
    Len(r.gender_bias.issues) + Len(r.racial_bias.issues) + Len(r.age_bias.issues)
    + Len(r.political_bias.issues) + Len(r.ability_bias.issues)
    + Len(r.socioeconomic_bias.issues)

\* min(100, issue_count / n * 1000), and 0 when n is 0
ScoreOver(issue_count, n) ==
    IF n = 0 THEN RInt(0)
    ELSE IF issue_count * 1000 > 100 * n THEN RInt(100)
    ELSE Rat(issue_count * 1000, n)

ScoresInRange ==
    /\ RLe(RInt(0), result.overall_bias_score)
    /\ RLe(result.overall_bias_score, RInt(100))
    /\ RLe(RInt(0), result.inclusivity_score)
    /\ RLe(result.inclusivity_score, RInt(100))

InclusivityComplement ==
    result.inclusivity_score =
        (IF RLt(RInt(100), result.overall_bias_score) THEN RInt(0)
         ELSE RSub(RInt(100), result.overall_bias_score))

\* C8, as stated: overall_bias_score = min(100, issue_count / word_count *
\* 1000) with word_count the number of whitespace tokens that hold an
\* alphanumeric character, 0 when word_count is 0; inclusivity_score =
\* max(0, 100 - overall_bias_score); both scores are in [0, 100].
C8_ScoreOverWordCount ==
    IsBiasReport =>
        /\ result.overall_bias_score = ScoreOver(IssueCount(result), CountWords(text))
        /\ InclusivityComplement
        /\ ScoresInRange

\* C8, amended: overall_bias_score = min(100, issue_count / token_count *
\* 1000) with token_count the number of all whitespace-separated tokens of
\* the text, tokens of punctuation only included, 0 when there is no token;
\* inclusivity_score = max(0, 100 - overall_bias_score); both scores are in
\* [0, 100].
C8_ScoreOverTokenCount ==
    IsBiasReport =>
        /\ result.overall_bias_score =
              ScoreOver(IssueCount(result),
                        Cardinality({i \in 1..Len(text) :
                                        /\ text[i] \notin Whitespace
                                        /\ (i = 1 \/ text[i - 1] \in Whitespace)}))
        /\ InclusivityComplement
        /\ ScoresInRange

\* "The chairman - the board met ... next year ": one Issue, 15 tokens, 14
\* of them words
C8_Witness ==
    /\ IsBiasReport
    /\ text = ChairmanClause \o NeutralClause
    /\ IssueCount(result) = 1
    /\ CountWords(text) = 14
    /\ result.overall_bias_score = <<200, 3>>
    /\ result.inclusivity_score = <<100, 3>>

(***************************************************************************)
(* Claims about the AI-likelihood scorer, checked under SpecAI.            *)
(***************************************************************************)
IsAIReport == result.op = "analyze_ai_likelihood"

\* the text holds 'As an AI language model' in some letter case
HasDisclaimer(t) == IsSubstring(Lower(AiPhrases[1]), Lower(t))

DistinctAiSymbols(t) == Range(AiSymbols) \cap Range(t)

\* C9: a text that holds 'As an AI language model' in any letter case and
\* at least 3 distinct symbols of the AI-symbol list gets an ai_probability
\* >= 45 and an assessment of the band 'May be AI-generated' or of a higher
\* band.
C9_DisclaimerAndSymbolsScore ==
    (IsAIReport /\ HasDisclaimer(text) /\ Cardinality(DistinctAiSymbols(text)) >= 3) =>
        /\ result.ai_probability >= 45
        /\ result.assessment \in {"May be AI-generated or heavily edited",
                                  "Likely AI-generated", "Very likely AI-generated"}

\* the phrase in upper case and three symbols, and nothing else that scores
C9_Witness ==
    /\ IsAIReport
    /\ HasDisclaimer(text)
    /\ ~IsSubstring(AiPhrases[1], text)
    /\ Cardinality(DistinctAiSymbols(text)) = 3
    /\ result.ai_probability = 45
    /\ result.assessment = "May be AI-generated or heavily edited"

(***************************************************************************)
(* Claims about the three core operations, checked under SpecCore.         *)
(***************************************************************************)
\* C12: for an empty or whitespace-only text analyze_text, detect_bias and
\* analyze_ai_likelihood return a result (no division by zero), every count
\* but the character counts is 0 and every ratio-based metric is 0.
C12_BlankTextAllZero ==
    AllWhitespace(text) =>
        /\ result.op \in {"none", "analyze_text", "detect_bias", "analyze_ai_likelihood"}
        /\ IsAnalysis =>
               /\ result.word_count = 0 /\ result.sentence_count = 0
               /\ result.paragraph_count = 0 /\ result.unique_words = 0
               /\ result.character_count = Len(text)
               /\ result.most_common_words = <<>>
               /\ \A ratio \in {"vocabulary_diversity", "avg_word_length",
                                 "avg_sentence_length", "flesch_reading_ease",
                                 "flesch_kincaid_grade", "reading_time_minutes"} :
                      result[ratio] = RInt(0)
        /\ IsBiasReport =>
               /\ result.overall_bias_score = RInt(0)
               /\ IssueCount(result) = 0
               /\ result.language_complexity.long_words_count = 0
               /\ result.language_complexity.avg_word_length = RInt(0)
               /\ result.language_complexity.avg_sentence_length = RInt(0)
        /\ IsAIReport =>
               /\ result.ai_probability = 0
               /\ result.indicators = <<>>

\* a text of blanks and newlines, analysed
C12_Witness ==
    /\ IsAnalysis
    /\ text = <<" ", "\n", " ">>
    /\ result.character_count = 3
    /\ result.sentence_count = 0

(***************************************************************************)
(* Claims about humanize_text, checked under SpecHumanize.                 *)
(***************************************************************************)
IsHumanized == result.op = "humanize_text"

\* 'As an AI language model'
Disclaimer == AiPhrases[1]

\* C16: whatever the text, the text humanize_text returns does not hold the
\* phrase 'As an AI language model'.
C16_DisclaimerNeverReturned ==
    IsHumanized => ~Contains(result.humanized, Disclaimer)

\* the phrases and symbols humanize_text deletes: the AI phrases and the
\* politeness phrases with an empty replacement, and the AI symbols
DeletedPhrases ==
    {AiPhrases[k] : k \in {j \in 1..Len(AiPhrases) : AiPhraseAlternatives[j] = << <<>> >>}}
    \cup {OverlyPolite[k][1] : k \in {j \in 1..Len(OverlyPolite) : OverlyPolite[j][2] = <<>>}}
    \cup {<<AiSymbols[k]>> : k \in 1..Len(AiSymbols)}

\* position i of t is inside an occurrence of a deleted phrase or symbol
InDeletedPhrase(t, i) ==
    \E phrase \in DeletedPhrases :
        \E p \in (i - Len(phrase) + 1)..i : p >= 1 /\ MatchAt(t, p, phrase)

\* t holds a word, a letter or a digit of which is outside every deleted
\* phrase and symbol
HasOrdinaryWord(t) ==
    \E i \in 1..Len(t) : IsAlnum(t[i]) /\ ~InDeletedPhrase(t, i)

\* C17: for a text with a word that is not part of a deleted AI phrase,
\* politeness phrase or AI symbol, humanize_text returns a text that is not
\* empty.
C17_OrdinaryWordsKept ==
    (IsHumanized /\ HasOrdinaryWord(text)) => result.humanized # <<>>

(***************************************************************************)
(* Claims about process_text, checked under SpecApp.                       *)
(***************************************************************************)
IsProcessed == result.op = "process_text"

Returned18 == IsProcessed /\ "raised" \notin DOMAIN result

\* the keys of a returned result are as the options ask
KeysAsAsked ==
    /\ {"original_text", "processed_text", "analyses"} \subseteq DOMAIN result
    /\ "statistics" \in DOMAIN result.analyses
    /\ ("bias" \in DOMAIN result.analyses) <=> Get(args.options, "detect_bias", FALSE)
    /\ ("ai_detection" \in DOMAIN result.analyses) <=> Get(args.options, "analyze_ai", FALSE)

UnknownFormat ==
    /\ HasFormatType(args.options)
    /\ Lower(args.options.format_type) \notin Formats

Capped(score) == IF score < 100 THEN score ELSE 100

\* the score of the text with the formality signal replaced by x
ScoreWithFormality(t, x) ==
    LET signals == Signals(t)
    IN  signals.phrases + signals.symbols + x
        + signals.contractions + signals.length + signals.repetition

\* the score of the text with the repetition signal replaced by x
ScoreWithRepetition(t, x) ==
    LET signals == Signals(t)
    IN  signals.phrases + signals.symbols + signals.formality
        + signals.contractions + signals.length + x

FormalHits == FormalWordCount(text)

Starts == SentenceStarts(AISentences(text))

Returned(c) == callers[c].pc = "done"

ResultAlone(call) ==
    CASE call.op = "analyze_text" -> AnalyzeTextResult(call.text, call.text_type)
      [] call.op = "compare_to_standards" ->
             [op |-> "compare_to_standards",
              report |-> CompareToStandards(
                             call.metrics.word_count, call.metrics.sentence_count,
                             call.metrics.paragraph_count,
                             call.metrics.avg_sentence_length,
                             call.metrics.vocabulary_diversity, call.text_type)]
      [] call.op = "detect_bias" -> DetectBiasResult(call.text)
      [] call.op = "analyze_ai_likelihood" -> AnalyzeAILikelihoodResult(call.text)

\* C15: no core operation changes the lexicon tables, the benchmark tables
\* or other state of the objects, and under every interleaving of the calls
\* of several callers each call returns what it returns when it runs alone.
C15_TablesReadOnly ==
    /\ instances = FreshInstances
    /\ \A c \in Callers : Returned(c) => callers[c].result = ResultAlone(callers[c].call)

\* a comparison on the analyzer has returned while an analyze_text call on
\* the same analyzer is between its two steps
C15_Witness ==
    /\ Returned(1)
    /\ callers[1].call.op = "compare_to_standards"
    /\ callers[1].call.text_type = UnknownGenre
    /\ callers[2].pc = "measured"
    /\ callers[2].call.instance = callers[1].call.instance

(***************************************************************************)
(* Claims about the total of analyze_ai_likelihood, checked under SpecAI.  *)
(***************************************************************************)
\* the five labels, in increasing order of AI likelihood
AIBands ==
    <<"Appears very human-like", "Appears mostly human-written",
      "May be AI-generated or heavily edited", "Likely AI-generated",
      "Very likely AI-generated">>

\* the sum of the contributions of the six signals
SignalTotal(t) == ScoreWithFormality(t, Signals(t).formality)

\* C21: the AI-likelihood total is in [0, 100], it is the sum of the signal
\* contributions capped at 100, and the assessment is the band of that
\* total alone: below 20, 40, 60 and 80 and from 80 on, the five labels in
\* increasing order of AI likelihood.
C21_TotalCappedAndBanded ==
    IsAIReport =>
        LET total == result.ai_probability
            band == IF total >= 80 THEN 5 ELSE (total \div 20) + 1
        IN  /\ 0 <= total /\ total <= 100
            /\ total = Capped(SignalTotal(text))
            /\ result.assessment = AIBands[band]

\* signals that add up to more than 100
C21_Witness ==
    /\ IsAIReport
    /\ SignalTotal(text) > 100
    /\ result.ai_probability = 100
    /\ result.assessment = "Very likely AI-generated"

\* C29: the recommendations of analyze_ai_likelihood are empty exactly when
\* 20 <= ai_probability < 40; below 20 they are the single entry 'Text
\* already appears natural!', from 40 to below 60 there are 3 entries and
\* from 60 on there are 6.
C29_RecommendationsByBand ==
    IsAIReport =>
        LET probability == result.ai_probability
            recommendations == result.recommendations
        IN  /\ (recommendations = <<>>) <=> (20 <= probability /\ probability < 40)
            /\ probability < 20 => recommendations = <<"Text already appears natural!">>
            /\ (40 <= probability /\ probability < 60) => Len(recommendations) = 3
            /\ probability >= 60 => Len(recommendations) = 6

\* a total of exactly 20, with no recommendation
C29_Witness ==
    /\ IsAIReport
    /\ result.ai_probability = 20
    /\ result.recommendations = <<>>

(***************************************************************************)
(* Claims about the pronoun check of the gender scanner, checked under     *)
(* SpecBias.                                                               *)
(***************************************************************************)
\* the positions of t where one of the words stands as a whole word
PronounStarts(t, words) ==
    {p \in 1..Len(t) : \E k \in 1..Len(words) : WholeWordAt(Lower(t), p, words[k])}

HeCount == Cardinality(PronounStarts(text, MasculinePronouns))

SheCount == Cardinality(PronounStarts(text, FemininePronouns))

ImbalanceIssues ==
    {i \in 1..Len(result.gender_bias.issues) :
        result.gender_bias.issues[i].term = PronounImbalance}

StrippedTokens(t) ==
    LET tokens == Split(t)
    IN  [i \in 1..Len(tokens) |-> SelectSeq(Lower(tokens[i]), IsWordChar)]

Qualifies(w) == Len(w) > 3 /\ w \notin StopWords

\* C23: most_common_words has length <= top_n, holds only lower-cased
\* tokens (non-word characters stripped) of length > 3 that are no stop
\* words, each with its exact number of occurrences, ordered by descending
\* count with ties in the order of first appearance; no qualifying word
\* outside the list has a higher count than a word in it.
C23_MostCommonWords ==
    result.op = "get_most_common_words" =>
        LET list == result.most_common_words
            tokens == StrippedTokens(text)
            at(w) == {i \in 1..Len(tokens) : tokens[i] = w}
            qualifying == {tokens[i] : i \in {j \in 1..Len(tokens) : Qualifies(tokens[j])}}
            listed == {list[i].word : i \in 1..Len(list)}
        IN  /\ Len(list) <= args.top_n
            /\ \A i \in 1..Len(list) :
                   /\ list[i].word \in qualifying
                   /\ list[i].count = Cardinality(at(list[i].word))
            /\ \A i, j \in 1..Len(list) :
                   i < j =>
                       \/ list[i].count > list[j].count
                       \/ /\ list[i].count = list[j].count
                          /\ Least(at(list[i].word)) < Least(at(list[j].word))
            /\ \A w \in qualifying \ listed :
                   \A i \in 1..Len(list) : Cardinality(at(w)) <= list[i].count

\* "Hello hello, alpha bravo ... kilos " with top_n = 2: 'hello' twice, and
\* 'alpha' as the first of eleven words that occur once
C23_Witness ==
    /\ result.op = "get_most_common_words"
    /\ args.top_n = 2
    /\ text = HelloWord \o HelloComma \o ElevenWords
    /\ result.most_common_words =
           <<[word |-> <<"h","e","l","l","o">>, count |-> 2],
             [word |-> <<"a","l","p","h","a">>, count |-> 1]>>

(***************************************************************************)
(* Claims about the rules of the comparator, checked under SpecDirect.     *)
(***************************************************************************)
IsStandardsReport == result.op = "compare_to_standards"

\* the benchmarks the call is compared against
Benchmarks == QualityStandards[GenreOf(args.text_type)]

\* the points the specification gives for each feedback entry
PenaltyTable ==
    {<<"Text is too short", 20>>, <<"Text is too long", 10>>,
     <<"Word count is acceptable but could be optimized", 5>>,
     <<"Sentences are too short", 10>>, <<"Sentences are too long", 15>>,
     <<"Low vocabulary diversity", 15>>,
     <<"Too few paragraphs", 10>>, <<"Consider consolidating some paragraphs", 5>>}

PenaltyOf(msg) == (CHOOSE pair \in PenaltyTable : pair[1] = msg)[2]

\* the points of the feedback entries from entry i on
RECURSIVE FeedbackTotal(_, _)
FeedbackTotal(feedback, i) ==
    IF i > Len(feedback) THEN 0
    ELSE PenaltyOf(feedback[i].msg) + FeedbackTotal(feedback, i + 1)

\* the entries of a list that carry the message
Entries(list, msg) == {i \in 1..Len(list) : list[i].msg = msg}

Says(list, msg) == Entries(list, msg) # {}

\* the feedback and strength messages of each of the four metrics
MetricMessages ==
    [word_count |->
         {"Text is too short", "Text is too long",
          "Word count is acceptable but could be optimized", "Excellent word count"},
     avg_sentence_length |->
         {"Sentences are too short", "Sentences are too long",
          "Good sentence length variety"},
     vocabulary_diversity |->
         {"Low vocabulary diversity", "Excellent vocabulary diversity"},
     paragraph_count |->
         {"Too few paragraphs", "Consider consolidating some paragraphs",
          "Well-structured paragraphs"}]

\* the number of entries a metric has in feedback and strengths together
MetricEntries(report, metric) ==
    Cardinality({i \in 1..Len(report.feedback) :
                    report.feedback[i].msg \in MetricMessages[metric]})
    + Cardinality({i \in 1..Len(report.strengths) :
                      report.strengths[i].msg \in MetricMessages[metric]})

\* the score is 100 less the points of the feedback entries
ScoreFromFeedback(report) == report.score = 100 - FeedbackTotal(report.feedback, 1)

\* C24: for every word_count and genre the word-count rule applies exactly
\* one of four outcomes: below min_words, 20 off with feedback; above
\* max_words, 10 off with feedback; inside the ideal range, bounds included,
\* a strength and nothing off; otherwise, between min and max and outside
\* the ideal range, 5 off with feedback.
C24_WordCountRule ==
    IsStandardsReport =>
        LET report == result.report
            word_count == args.word_count
            below == word_count < Benchmarks.min_words
            above == word_count > Benchmarks.max_words
            ideal == /\ Benchmarks.ideal_words[1] <= word_count
                     /\ word_count <= Benchmarks.ideal_words[2]
            between == /\ Benchmarks.min_words <= word_count
                       /\ word_count <= Benchmarks.max_words
                       /\ ~ideal
        IN  /\ Cardinality({c \in {"below", "above", "ideal", "between"} :
                               \/ c = "below" /\ below
                               \/ c = "above" /\ above
                               \/ c = "ideal" /\ ideal
                               \/ c = "between" /\ between}) = 1
            /\ below <=> Says(report.feedback, "Text is too short")
            /\ above <=> Says(report.feedback, "Text is too long")
            /\ ideal <=> Says(report.strengths, "Excellent word count")
            /\ between <=>
                   Says(report.feedback, "Word count is acceptable but could be optimized")
            /\ MetricEntries(report, "word_count") = 1
            /\ ScoreFromFeedback(report)

\* a cover letter of exactly 400 words, the upper bound of the ideal range,
\* with nothing taken off by any rule
C24_Witness ==
    /\ IsStandardsReport
    /\ args.text_type = "cover_letter"
    /\ args.word_count = 400
    /\ Says(result.report.strengths, "Excellent word count")
    /\ result.report.score = 100

\* C25: the sentence-length rule takes 10 off with feedback when
\* avg_sentence_length < ideal_min - 5, takes 15 off with feedback when
\* avg_sentence_length > ideal_max + 10, notes a strength when ideal_min <=
\* avg_sentence_length <= ideal_max, and in the two gaps, from ideal_min - 5
\* to below ideal_min and from above ideal_max to ideal_max + 10, produces
\* no penalty, no strength and no feedback.
C25_SentenceLengthRule ==
    IsStandardsReport =>
        LET report == result.report
            avg_sentence_length == args.avg_sentence_length
            ideal_min == Benchmarks.avg_sentence_length[1]
            ideal_max == Benchmarks.avg_sentence_length[2]
            short == RLt(avg_sentence_length, RInt(ideal_min - 5))
            long == RLt(RInt(ideal_max + 10), avg_sentence_length)
            ideal == /\ RLe(RInt(ideal_min), avg_sentence_length)
                     /\ RLe(avg_sentence_length, RInt(ideal_max))
            gap == \/ /\ RLe(RInt(ideal_min - 5), avg_sentence_length)
                      /\ RLt(avg_sentence_length, RInt(ideal_min))
                   \/ /\ RLt(RInt(ideal_max), avg_sentence_length)
                      /\ RLe(avg_sentence_length, RInt(ideal_max + 10))
        IN  /\ short <=> Says(report.feedback, "Sentences are too short")
            /\ long <=> Says(report.feedback, "Sentences are too long")
            /\ ideal <=> Says(report.strengths, "Good sentence length variety")
            /\ gap <=> MetricEntries(report, "avg_sentence_length") = 0
            /\ MetricEntries(report, "avg_sentence_length") <= 1
            /\ ScoreFromFeedback(report)

\* an average of exactly ideal_min - 5 with every other rule content: the
\* sentence rule adds nothing and the score stays 100
C25_Witness ==
    /\ IsStandardsReport
    /\ args.avg_sentence_length = RInt(Benchmarks.avg_sentence_length[1] - 5)
    /\ MetricEntries(result.report, "avg_sentence_length") = 0
    /\ result.report.score = 100
    /\ Len(result.report.strengths) = 3

\* C26: the paragraph rule takes 10 off with feedback when paragraph_count
\* is below the ideal minimum, takes 5 off with feedback when it is above
\* 1.5 times the ideal maximum, notes a strength within the ideal bounds,
\* and produces nothing for a count above the ideal maximum and not above
\* 1.5 times it; it does so whatever the word-count, sentence-length and
\* vocabulary rules produced.
C26_ParagraphRule ==
    IsStandardsReport =>
        LET report == result.report
            paragraph_count == args.paragraph_count
            ideal_min == Benchmarks.paragraph_count[1]
            ideal_max == Benchmarks.paragraph_count[2]
            few == paragraph_count < ideal_min
            many == 2 * paragraph_count > 3 * ideal_max
            ideal == ideal_min <= paragraph_count /\ paragraph_count <= ideal_max
            gap == ideal_max < paragraph_count /\ 2 * paragraph_count <= 3 * ideal_max
        IN  /\ few <=> Says(report.feedback, "Too few paragraphs")
            /\ many <=> Says(report.feedback, "Consider consolidating some paragraphs")
            /\ ideal <=> Says(report.strengths, "Well-structured paragraphs")
            /\ gap <=> MetricEntries(report, "paragraph_count") = 0
            /\ MetricEntries(report, "paragraph_count") <= 1
            /\ ScoreFromFeedback(report)

\* the three other rules each take points off, and the paragraph rule still
\* notes its strength
C26_Witness ==
    /\ IsStandardsReport
    /\ Says(result.report.feedback, "Text is too short")
    /\ Says(result.report.feedback, "Sentences are too long")
    /\ Says(result.report.feedback, "Low vocabulary diversity")
    /\ Says(result.report.strengths, "Well-structured paragraphs")
    /\ result.report.score = 50

\* C27: for every combination of metrics and genre the score is a multiple
\* of 5 from 40 to 100; the penalties never add up to more than 60, so the
\* floor at 0 is never applied, and the assessment 'Needs work' comes only
\* with the scores 40 to 55.
C27_ScoreMultipleOfFive ==
    IsStandardsReport =>
        LET report == result.report
        IN  /\ report.score \in {40 + 5 * k : k \in 0..12}
            /\ FeedbackTotal(report.feedback, 1) <= 60
            /\ report.score = 100 - FeedbackTotal(report.feedback, 1)
            /\ report.assessment = "Needs work - Significant improvements needed" =>
                   report.score \in {40, 45, 50, 55}

\* the four heaviest penalties together
C27_Witness ==
    /\ IsStandardsReport
    /\ FeedbackTotal(result.report.feedback, 1) = 60
    /\ result.report.score = 40
    /\ result.report.assessment = "Needs work - Significant improvements needed"

\* C28: in every report score < 100 exactly when feedback is non-empty,
\* every feedback entry carrying a penalty and every penalty a feedback
\* entry; each of the four metrics has at most one entry in feedback and
\* strengths together, so len(feedback) + len(strengths) <= 4.
C28_FeedbackIffPenalty ==
    IsStandardsReport =>
        LET report == result.report
        IN  /\ (report.score < 100) <=> (report.feedback # <<>>)
            /\ \A i \in 1..Len(report.feedback) :
                   /\ PenaltyOf(report.feedback[i].msg) > 0
                   /\ \E metric \in DOMAIN MetricMessages :
                          report.feedback[i].msg \in MetricMessages[metric]
            /\ \A i \in 1..Len(report.strengths) :
                   \E metric \in DOMAIN MetricMessages :
                       report.strengths[i].msg \in MetricMessages[metric]
            /\ \A metric \in DOMAIN MetricMessages : MetricEntries(report, metric) <= 1
            /\ Len(report.feedback) + Len(report.strengths) <= 4
            /\ ScoreFromFeedback(report)

\* a single feedback entry, of the smallest penalty, besides three strengths
C28_Witness ==
    /\ IsStandardsReport
    /\ Len(result.report.feedback) = 1
    /\ Len(result.report.strengths) = 3
    /\ Says(result.report.feedback, "Word count is acceptable but could be optimized")
    /\ result.report.score = 95

(***************************************************************************)
(* Claims about the steps of process_text, checked under SpecApp.          *)
(***************************************************************************)
\* the genre of the statistics as the specification states it: format_type
\* when it is essay, cover_letter, resume or letter, and essay otherwise
StatedGenre(options) ==
    LET format_type == Get(options, "format_type", <<>>)
    IN  CASE format_type = <<"e","s","s","a","y">> -> "essay"
          [] format_type = <<"c","o","v","e","r","_","l","e","t","t","e","r">> -> "cover_letter"
          [] format_type = <<"r","e","s","u","m","e">> -> "resume"
          [] format_type = <<"l","e","t","t","e","r">> -> "letter"
          [] OTHER -> "essay"

\* the texts step 3 and then step 4 can leave from the original text
HumanizedThenFormatted(t, options) ==
    LET humanized == IF Get(options, "humanize", FALSE) THEN HumanizeTextOutcomes(t) ELSE {t}
    IN  IF HasFormatType(options)
        THEN {FormatText(h, options.format_type).formatted : h \in humanized}
        ELSE humanized

\* C30: process_text runs bias detection, AI analysis, humanize, format and
\* statistics in this order: the bias and AI analyses are of the original
\* text, the statistics are of the final processed_text, humanized first and
\* formatted second, against the genre that format_type names when it is
\* essay, cover_letter, resume or letter and against 'essay' otherwise;
\* original_text is the input, and with humanize false and no format_type
\* processed_text equals original_text.
C30_StepsInOrder ==
    Returned18 =>
        LET options == args.options
            analyses == result.analyses
        IN  /\ result.original_text = text
            /\ result.processed_text \in HumanizedThenFormatted(text, options)
            /\ "bias" \in DOMAIN analyses => analyses.bias = DetectBiasResult(text)
            /\ "ai_detection" \in DOMAIN analyses =>
                   analyses.ai_detection = AnalyzeAILikelihoodResult(text)
            /\ analyses.statistics =
                   AnalyzeTextResult(result.processed_text, StatedGenre(options))
            /\ (~Get(options, "humanize", FALSE) /\ "format_type" \notin DOMAIN options) =>
                   result.processed_text = result.original_text

\* "The chairman " humanized and formatted as a resume: the bias found is
\* that of the original text, the statistics are those of the resume
C30_Witness ==
    /\ Returned18
    /\ text = ChairmanClause
    /\ args.options = OptionsOf(FlagKeys, {}, {ResumeFormat})
    /\ result.processed_text # text
    /\ result.analyses.bias = DetectBiasResult(text)
    /\ result.analyses.bias # DetectBiasResult(result.processed_text)
    /\ result.analyses.statistics.text_type = "resume"
    /\ result.analyses.statistics.word_count > CountWords(text)

====
